---- MODULE Spec2Model ----
(***************************************************************************)
(* Model of the 1099 -> Form 1040 mapping engine and of the two tax        *)
(* computations of the repository:                                        *)
(*   - Form1099ToForm1040Mapper  (src/lib/1099-to-1040-mapping.ts)         *)
(*   - AbstractForm1040 / Standard1040Form                                *)
(*       (src/src/forms/base/abstract-form.ts,                            *)
(*        src/src/profile/eligibility-service.ts)                         *)
(*                                                                         *)
(* Currency amounts are integers in cents.  A JavaScript object is a       *)
(* function whose DOMAIN is the set of keys that are present; an absent    *)
(* key is `undefined`.  Tax rates are integers in percent, so an amount in *)
(* cents times a rate is an exact number of hundredths of a cent.          *)
(***************************************************************************)
EXTENDS Integers, Sequences, FiniteSets, TLC

\* the Form 1040 under construction and its history
VARIABLES form, mapped, exported, updates

formVars == <<form, mapped, exported, updates>>

\* one reconciliation of a 1099-MISC: the structured data, the data the text
\* patterns found, and the value validateAndCorrect1099MiscFields returned
VARIABLES structuredData, ocrData, validatedData

reconVars == <<structuredData, ocrData, validatedData>>

\* one classification: the recognized text of a document and the type
\* analyzeDocumentTypeFromOCR made of it
VARIABLES fullText, ocrBasedType

classifyVars == <<fullText, ocrBasedType>>

\* one extraction of the POST route: the document the route fetched, its row
\* in the database, what the provider makes of its file, the outcome of
\* extractDataFromDocument and the route's finalDocumentType
VARIABLES document, documentRow, analyzeResult, extraction, finalDocumentType

extractVars == <<document, documentRow, analyzeResult, extraction, finalDocumentType>>

\* the processing of the documents of one tax return: the rows of the
\* documents, what the extraction makes of each, the position and the locals
\* of the POST of each, the income entry table and the totals of the return
VARIABLES documents, extractions, posts, incomeEntries, taxReturn

pipelineVars == <<documents, extractions, posts, incomeEntries, taxReturn>>

\* the last document validate1099DataForMapping was called on and what it
\* returned
VARIABLES validation

intakeVars == <<validation>>

\* one selection of the primary employee of a W-2: the records detected,
\* the name of the employee the structured data gives, the record selected
VARIABLES multiEmployeeInfo, employeeName, primaryEmployee

selectVars == <<multiEmployeeInfo, employeeName, primaryEmployee>>

\* one reading of the boxes of a 1099-INT from its recognized text: the text
\* and the data extract1099IntFieldsFromOCR made of it
VARIABLES boxText, boxData

boxesVars == <<boxText, boxData>>

\* one reading of the structured fields of a 1099: the fields of the
\* provider's document, the type of the document and the data
\* process1099IntFields or process1099MiscFields made of them
VARIABLES documentFields, readerType, readerData

readerVars == <<documentFields, readerType, readerData>>

\* one address and what the two parsers made of it: parseAddressComponents
\* of the service and parseAddress of the mapper
VARIABLES addressLine, serviceAddress, mapperAddress

addressVars == <<addressLine, serviceAddress, mapperAddress>>

\* one reading of a wage statement with several employees: its text, the
\* structured fields of the provider and the data processW2Fields made of
\* them
VARIABLES w2Text, w2Fields, w2Data

wagesVars == <<w2Text, w2Fields, w2Data>>

\* the POSTs on one document: the row of the document, what the extraction
\* makes of it, the position and the locals of each request, the income
\* entry table and the totals of the return
VARIABLES processedDocument, requestedExtraction, requests, documentEntries, returnTotals

requestsVars == <<processedDocument, requestedExtraction, requests, documentEntries, returnTotals>>

\* the income step of the interview: the extracted entries that await the
\* user, the income entries shown, the last totals handed to onAutoSave and
\* the run of handleAcceptAllAutoEntries (the list it closed over, its
\* index, the responses of its save requests)
VARIABLES pendingAutoEntries, shownIncomeEntries, autoSaved, acceptAll

acceptVars == <<pendingAutoEntries, shownIncomeEntries, autoSaved, acceptAll>>

vars == <<formVars, reconVars, classifyVars, extractVars, pipelineVars, intakeVars, selectVars, boxesVars, readerVars, addressVars, wagesVars, requestsVars, acceptVars>>

\* what the steps on the form leave alone
notFormVars == <<reconVars, classifyVars, extractVars, pipelineVars, intakeVars, selectVars, boxesVars, readerVars, addressVars, wagesVars, requestsVars, acceptVars>>

\* what a reconciliation leaves alone
notReconVars == <<formVars, classifyVars, extractVars, pipelineVars, intakeVars, selectVars, boxesVars, readerVars, addressVars, wagesVars, requestsVars, acceptVars>>

\* what a classification leaves alone
notClassifyVars == <<formVars, reconVars, extractVars, pipelineVars, intakeVars, selectVars, boxesVars, readerVars, addressVars, wagesVars, requestsVars, acceptVars>>

\* what an extraction leaves alone
notExtractVars == <<formVars, reconVars, classifyVars, pipelineVars, intakeVars, selectVars, boxesVars, readerVars, addressVars, wagesVars, requestsVars, acceptVars>>

\* what the processing of documents leaves alone
notPipelineVars == <<formVars, reconVars, classifyVars, extractVars, intakeVars, selectVars, boxesVars, readerVars, addressVars, wagesVars, requestsVars, acceptVars>>

\* what the validation of a document leaves alone
notIntakeVars == <<formVars, reconVars, classifyVars, extractVars, pipelineVars, selectVars, boxesVars, readerVars, addressVars, wagesVars, requestsVars, acceptVars>>

\* what the selection of a record leaves alone
notSelectVars == <<formVars, reconVars, classifyVars, extractVars, pipelineVars, intakeVars, boxesVars, readerVars, addressVars, wagesVars, requestsVars, acceptVars>>

\* what the reading of the boxes of a text leaves alone
notBoxesVars == <<formVars, reconVars, classifyVars, extractVars, pipelineVars, intakeVars, selectVars, readerVars, addressVars, wagesVars, requestsVars, acceptVars>>

\* what the reading of structured fields leaves alone
notReaderVars == <<formVars, reconVars, classifyVars, extractVars, pipelineVars, intakeVars, selectVars, boxesVars, addressVars, wagesVars, requestsVars, acceptVars>>

\* what the parsing of an address leaves alone
notAddressVars == <<formVars, reconVars, classifyVars, extractVars, pipelineVars, intakeVars, selectVars, boxesVars, readerVars, wagesVars, requestsVars, acceptVars>>

\* what the reading of a wage statement leaves alone
notWagesVars == <<formVars, reconVars, classifyVars, extractVars, pipelineVars, intakeVars, selectVars, boxesVars, readerVars, addressVars, requestsVars, acceptVars>>

\* what the requests on one document leave alone
notRequestsVars == <<formVars, reconVars, classifyVars, extractVars, pipelineVars, intakeVars, selectVars, boxesVars, readerVars, addressVars, wagesVars, acceptVars>>

\* what the acceptance of extracted entries leaves alone
notAcceptVars == <<formVars, reconVars, classifyVars, extractVars, pipelineVars, intakeVars, selectVars, boxesVars, readerVars, addressVars, wagesVars, requestsVars>>

----------------------------------------------------------------------------
(* Bounds of the model *)

MaxDocs == 2
MaxUpdates == 1
MaxPhrases == 2
MaxRecords == 2
MaxLines == 2
MaxAliases == 2
MaxRequests == 2
MaxPending == 3

----------------------------------------------------------------------------
(* JavaScript objects and raw values *)

EmptyObject == [k \in {} |-> 0]

Has(obj, k) == k \in DOMAIN obj

Put(obj, k, v) == [x \in (DOMAIN obj) \cup {k} |-> IF x = k THEN v ELSE obj[x]]

\* (obj.k || 0) for a numeric key
OrZero(obj, k) == IF Has(obj, k) THEN obj[k] ELSE 0

\* obj.k for a nested object, {} when absent
Sub(obj, k) == IF Has(obj, k) THEN obj[k] ELSE EmptyObject

Dollars(n) == n * 100

Max(a, b) == IF a >= b THEN a ELSE b

Min(a, b) == IF a <= b THEN a ELSE b

\* Raw values a document field can hold
Undefined == [t |-> "undefined"]
Num(n) == [t |-> "number", n |-> n]
NaN == [t |-> "NaN"]
Str(s) == [t |-> "string", s |-> s]
ValueOf(raw) == [t |-> "value", v |-> raw]
ContentOf(raw) == [t |-> "content", v |-> raw]

Field(obj, k) == IF Has(obj, k) THEN obj[k] ELSE Undefined

\* JavaScript truthiness of a raw value (used by the || chains)
Truthy(raw) ==
  CASE raw.t = "undefined" -> FALSE
    [] raw.t = "NaN" -> FALSE
    [] raw.t = "number" -> raw.n # 0
    [] raw.t = "string" -> Len(raw.s) > 0
    [] OTHER -> TRUE

OrElse(a, b) == IF Truthy(a) THEN a ELSE b

Digits == {"0", "1", "2", "3", "4", "5", "6", "7", "8", "9"}

DigitVal(c) ==
  CASE c = "0" -> 0 [] c = "1" -> 1 [] c = "2" -> 2 [] c = "3" -> 3
    [] c = "4" -> 4 [] c = "5" -> 5 [] c = "6" -> 6 [] c = "7" -> 7
    [] c = "8" -> 8 [] c = "9" -> 9

\* number of leading digits of s from position i
RECURSIVE DigitRun(_, _)
DigitRun(s, i) ==
  IF i <= Len(s) /\ s[i] \in Digits THEN 1 + DigitRun(s, i + 1) ELSE 0

RECURSIVE DigitsValue(_, _, _)
DigitsValue(s, i, n) ==
  IF n = 0 THEN 0 ELSE DigitsValue(s, i, n - 1) * 10 + DigitVal(s[i + n - 1])

\* parseFloat on a character sequence: optional sign, digits, optional
\* fraction; the longest numeric prefix is read and the rest ignored.
\* The result is [nan |-> TRUE] or [nan |-> FALSE, cents |-> c]; fraction
\* digits beyond the second are below one cent and are dropped.
parseFloat(s) ==
  LET neg == Len(s) >= 1 /\ s[1] = "-"
      start == IF Len(s) >= 1 /\ s[1] \in {"-", "+"} THEN 2 ELSE 1
      nInt == DigitRun(s, start)
      dot == start + nInt
      hasDot == dot <= Len(s) /\ s[dot] = "."
      nFrac == IF hasDot THEN DigitRun(s, dot + 1) ELSE 0
      intPart == DigitsValue(s, start, nInt)
      fracCents ==
        CASE nFrac = 0 -> 0
          [] nFrac = 1 -> DigitVal(s[dot + 1]) * 10
          [] OTHER -> DigitVal(s[dot + 1]) * 10 + DigitVal(s[dot + 2])
      magnitude == intPart * 100 + fracCents
  IN IF nInt = 0 /\ nFrac = 0
       THEN [nan |-> TRUE, cents |-> 0]
       ELSE [nan |-> FALSE, cents |-> IF neg THEN 0 - magnitude ELSE magnitude]

RECURSIVE parseAmount(_)
parseAmount(value) ==
  CASE value.t = "undefined" -> 0
    [] value.t = "NaN" -> 0
    [] value.t = "number" -> value.n
    [] value.t = "string" ->
         LET cleaned == SelectSeq(value.s, LAMBDA c : c \notin {"$", ",", " "})
             parsed == parseFloat(cleaned)
         IN IF parsed.nan THEN 0 ELSE parsed.cents
    [] value.t = "value" -> parseAmount(value.v)
    [] value.t = "content" -> parseAmount(value.v)
    [] OTHER -> 0

----------------------------------------------------------------------------
(* Form1099ToForm1040Mapper: tax computation *)

FilingStatuses ==
  {"SINGLE", "MARRIED_FILING_JOINTLY", "MARRIED_FILING_SEPARATELY",
   "HEAD_OF_HOUSEHOLD", "QUALIFYING_SURVIVING_SPOUSE"}

\* bracket.max of the last bracket
Infinity == 2000000000

Bracket(lo, hi, pct) == [min |-> lo, max |-> hi, rate |-> pct]

calculateTotalIncome(form1040Data) ==
  OrZero(form1040Data, "line1") + OrZero(form1040Data, "line2b")
    + OrZero(form1040Data, "line3b") + OrZero(form1040Data, "line4b")
    + OrZero(form1040Data, "line5b") + OrZero(form1040Data, "line6b")
    + OrZero(form1040Data, "line7") + OrZero(form1040Data, "line8")

STANDARD_DEDUCTION_2023 ==
  [SINGLE |-> Dollars(13850),
   MARRIED_FILING_JOINTLY |-> Dollars(27700),
   MARRIED_FILING_SEPARATELY |-> Dollars(13850),
   HEAD_OF_HOUSEHOLD |-> Dollars(20800),
   QUALIFYING_SURVIVING_SPOUSE |-> Dollars(27700)]

\* filingStatus is a status name, or Undefined when the form has none
getStandardDeduction(filingStatus) ==
  IF filingStatus \in DOMAIN STANDARD_DEDUCTION_2023
    THEN STANDARD_DEDUCTION_2023[filingStatus]
    ELSE STANDARD_DEDUCTION_2023["SINGLE"]

MapperBracketsJoint ==
  << Bracket(Dollars(0), Dollars(22000), 10),
     Bracket(Dollars(22000), Dollars(89450), 12),
     Bracket(Dollars(89450), Dollars(190750), 22),
     Bracket(Dollars(190750), Dollars(364200), 24),
     Bracket(Dollars(364200), Dollars(462500), 32),
     Bracket(Dollars(462500), Dollars(693750), 35),
     Bracket(Dollars(693750), Infinity, 37) >>

MapperBracketsOther ==
  << Bracket(Dollars(0), Dollars(11000), 10),
     Bracket(Dollars(11000), Dollars(44725), 12),
     Bracket(Dollars(44725), Dollars(95375), 22),
     Bracket(Dollars(95375), Dollars(182050), 24),
     Bracket(Dollars(182050), Dollars(231250), 32),
     Bracket(Dollars(231250), Dollars(578125), 35),
     Bracket(Dollars(578125), Infinity, 37) >>

MapperBrackets(filingStatus) ==
  IF filingStatus = "MARRIED_FILING_JOINTLY"
    THEN MapperBracketsJoint
    ELSE MapperBracketsOther

\* a bracket loop that never reduces the remaining income
RECURSIVE BracketLoop_KeepsRemaining(_, _, _, _)
BracketLoop_KeepsRemaining(brackets, i, remainingIncome, tax) ==
  IF i > Len(brackets) \/ remainingIncome <= 0
    THEN tax
    ELSE LET bracket == brackets[i]
             taxableAtThisBracket == Min(remainingIncome, bracket.max - bracket.min)
         IN BracketLoop_KeepsRemaining(brackets, i + 1, remainingIncome,
                                       tax + taxableAtThisBracket * bracket.rate)

\* The bracket loop: tax in hundredths of a cent after brackets i..Len
RECURSIVE BracketLoop(_, _, _, _)
BracketLoop(brackets, i, remainingIncome, tax) ==
  IF i > Len(brackets) \/ remainingIncome <= 0
    THEN tax
    ELSE LET bracket == brackets[i]
             taxableAtThisBracket == Min(remainingIncome, bracket.max - bracket.min)
         IN BracketLoop(brackets, i + 1,
                        remainingIncome - taxableAtThisBracket,
                        tax + taxableAtThisBracket * bracket.rate)

\* Math.round(tax * 100) / 100: hundredths of a cent to whole cents, half up
RoundToCents(hundredths) == (hundredths + 50) \div 100

calculateTaxLiability(taxableIncome, filingStatus) ==
  RoundToCents(BracketLoop(MapperBrackets(filingStatus), 1, taxableIncome, 0))

FilingStatusOf(form1040Data) ==
  IF Has(form1040Data, "filingStatus") THEN form1040Data["filingStatus"] ELSE "undefined"

\* a refund branch that leaves the amount owed at the whole tax
RefundOrOwed_OwedIgnoresPayments(f32) ==
  LET totalTax == OrZero(f32, "line24")
      totalPayments == OrZero(f32, "line32")
  IN IF totalPayments > totalTax
       THEN Put(Put(Put(f32, "line33", totalPayments - totalTax),
                    "line34", totalPayments - totalTax),
                "line37", 0)
       ELSE Put(Put(Put(f32, "line33", 0), "line34", 0),
                "line37", totalTax)

\* lines 33, 34 and 37 from total tax (line 24) and total payments (line 32)
RefundOrOwed(f32) ==
  LET totalTax == OrZero(f32, "line24")
      totalPayments == OrZero(f32, "line32")
  IN IF totalPayments > totalTax
       THEN Put(Put(Put(f32, "line33", totalPayments - totalTax),
                    "line34", totalPayments - totalTax),
                "line37", 0)
       ELSE Put(Put(Put(f32, "line33", 0), "line34", 0),
                "line37", totalTax - totalPayments)

recalculateForm1040Totals(form1040Data) ==
  LET f9 == Put(form1040Data, "line9", calculateTotalIncome(form1040Data))
      f11 == Put(f9, "line11", f9["line9"])
      f12 == IF OrZero(f11, "line12") = 0 /\ Has(f11, "filingStatus")
               THEN Put(f11, "line12", getStandardDeduction(f11["filingStatus"]))
               ELSE f11
      f15 == Put(f12, "line15",
                 Max(0, OrZero(f12, "line11") - OrZero(f12, "line12") - OrZero(f12, "line13")))
      f16 == Put(f15, "line16",
                 calculateTaxLiability(OrZero(f15, "line15"), FilingStatusOf(f15)))
      f24 == Put(f16, "line24",
                 OrZero(f16, "line16") + OrZero(f16, "line17") + OrZero(f16, "line23"))
      f32 == Put(f24, "line32",
                 OrZero(f24, "line25a") + OrZero(f24, "line25b")
                   + OrZero(f24, "line25c") + OrZero(f24, "line25d"))
  IN RefundOrOwed(f32)

----------------------------------------------------------------------------
(* Text: a string is the sequence of its characters *)

UpperLetters ==
  {"A", "B", "C", "D", "E", "F", "G", "H", "I", "J", "K", "L", "M",
   "N", "O", "P", "Q", "R", "S", "T", "U", "V", "W", "X", "Y", "Z"}

LowerLetters ==
  {"a", "b", "c", "d", "e", "f", "g", "h", "i", "j", "k", "l", "m",
   "n", "o", "p", "q", "r", "s", "t", "u", "v", "w", "x", "y", "z"}

\* obj.k for a text key, '' when absent
Text(obj, k) == IF Has(obj, k) THEN obj[k] ELSE << >>

\* a || b on strings
OrText(a, b) == IF Len(a) > 0 THEN a ELSE b

AllIn(s, chars) == \A i \in 1..Len(s) : s[i] \in chars

\* String.prototype.trim
Trim(s) ==
  IF AllIn(s, {" "})
    THEN << >>
    ELSE LET first == CHOOSE i \in 1..Len(s) :
                        s[i] # " " /\ \A j \in 1..(i - 1) : s[j] = " "
             last == CHOOSE i \in 1..Len(s) :
                       s[i] # " " /\ \A j \in (i + 1)..Len(s) : s[j] = " "
         IN SubSeq(s, first, last)

\* String.prototype.includes
Includes(s, sub) ==
  \E i \in 1..(Len(s) - Len(sub) + 1) : SubSeq(s, i, i + Len(sub) - 1) = sub

\* s.split(ch) for a single character ch
RECURSIVE SplitOn(_, _)
SplitOn(s, ch) ==
  IF \A i \in 1..Len(s) : s[i] # ch
    THEN << s >>
    ELSE LET i == CHOOSE k \in 1..Len(s) : s[k] = ch /\ \A j \in 1..(k - 1) : s[j] # ch
         IN << SubSeq(s, 1, i - 1) >> \o SplitOn(SubSeq(s, i + 1, Len(s)), ch)

\* s.split(/\s+/) for a trimmed s
RECURSIVE SplitWords(_)
SplitWords(s) ==
  IF \A i \in 1..Len(s) : s[i] # " "
    THEN << s >>
    ELSE LET i == CHOOSE k \in 1..Len(s) : s[k] = " " /\ \A j \in 1..(k - 1) : s[j] # " "
             next == CHOOSE k \in (i + 1)..Len(s) :
                       s[k] # " " /\ \A j \in (i + 1)..(k - 1) : s[j] = " "
         IN << SubSeq(s, 1, i - 1) >> \o SplitWords(SubSeq(s, next, Len(s)))

\* parts.join(sep)
RECURSIVE Join(_, _)
Join(parts, sep) ==
  IF Len(parts) = 0 THEN << >>
  ELSE IF Len(parts) = 1 THEN parts[1]
  ELSE parts[1] \o sep \o Join(Tail(parts), sep)

formatSSN(ssn) ==
  LET cleaned == SelectSeq(ssn, LAMBDA c : c \in Digits)
  IN IF Len(cleaned) = 9
       THEN SubSeq(cleaned, 1, 3) \o << "-" >> \o SubSeq(cleaned, 4, 5)
              \o << "-" >> \o SubSeq(cleaned, 6, 9)
       ELSE cleaned

\* \d{5}(-\d{4})?
IsZip(z) ==
  \/ Len(z) = 5 /\ AllIn(z, Digits)
  \/ /\ Len(z) = 10
     /\ AllIn(SubSeq(z, 1, 5), Digits)
     /\ z[6] = "-"
     /\ AllIn(SubSeq(z, 7, 10), Digits)

\* number of spaces of s from position i on
RECURSIVE SpaceRun(_, _)
SpaceRun(s, i) ==
  IF i <= Len(s) /\ s[i] = " " THEN 1 + SpaceRun(s, i + 1) ELSE 0

\* number of spaces of s right before position i
SpacesBefore(s, i) ==
  Cardinality({k \in 1..(i - 1) : \A j \in k..(i - 1) : s[j] = " "})

NoStateZip == [ok |-> FALSE, pos |-> 0, state |-> << >>, zipCode |-> << >>]

\* /^([A-Z]{2})\s*(\d{5}(-\d{4})?)$/ with minSpaces = 0,
\* /^([A-Z]{2})\s+(\d{5}(-\d{4})?)$/ with minSpaces = 1
MatchStateZip(s, minSpaces) ==
  IF /\ Len(s) >= 2
     /\ s[1] \in UpperLetters
     /\ s[2] \in UpperLetters
     /\ SpaceRun(s, 3) >= minSpaces
     /\ IsZip(SubSeq(s, 3 + SpaceRun(s, 3), Len(s)))
    THEN [ok |-> TRUE, pos |-> 1, state |-> SubSeq(s, 1, 2),
          zipCode |-> SubSeq(s, 3 + SpaceRun(s, 3), Len(s))]
    ELSE NoStateZip

\* length of the zip code an address ends with, 0 when it ends with none
ZipLength(s) ==
  IF Len(s) >= 10 /\ IsZip(SubSeq(s, Len(s) - 9, Len(s))) THEN 10
  ELSE IF Len(s) >= 5 /\ IsZip(SubSeq(s, Len(s) - 4, Len(s))) THEN 5
  ELSE 0

\* ([A-Z]{2})\s+ before a zip code that starts at zipStart
StateBeforeZip(s, zipStart, spaces) ==
  IF /\ spaces >= 1
     /\ zipStart - spaces - 2 >= 1
     /\ s[zipStart - spaces - 2] \in UpperLetters
     /\ s[zipStart - spaces - 1] \in UpperLetters
    THEN [ok |-> TRUE, pos |-> zipStart - spaces - 2,
          state |-> SubSeq(s, zipStart - spaces - 2, zipStart - spaces - 1),
          zipCode |-> SubSeq(s, zipStart, Len(s))]
    ELSE NoStateZip

\* the tail ([A-Z]{2})\s+(\d{5}(-\d{4})?)$ of an address and the position of
\* its state, if the address ends that way
StateZipTail(s) ==
  IF ZipLength(s) = 0
    THEN NoStateZip
    ELSE StateBeforeZip(s, Len(s) - ZipLength(s) + 1,
                        SpacesBefore(s, Len(s) - ZipLength(s) + 1))

Address(street, city, state, zipCode) ==
  [street |-> street, city |-> city, state |-> state, zipCode |-> zipCode]

\* address.split(',').map(part => part.trim())
CommaParts(address) ==
  [i \in 1..Len(SplitOn(address, ",")) |-> Trim(SplitOn(address, ",")[i])]

\* street = all words but the last, city = the last word
StreetAndCity(words, stateZip) ==
  Address(Join(SubSeq(words, 1, Len(words) - 1), << " " >>), words[Len(words)],
          stateZip.state, stateZip.zipCode)

\* the ends of the streets (.+?) for which
\* /^(.+?)\s+([A-Za-z\s]+?)\s+([A-Z]{2})\s+(\d{5}(-\d{4})?)$/ matches, the
\* state being at position pos
StreetEnds(address, pos) ==
  {i \in 1..(pos - 4) :
     /\ address[i + 1] = " "
     /\ address[pos - 1] = " "
     /\ AllIn(SubSeq(address, i + 1, pos - 1),
              UpperLetters \cup LowerLetters \cup {" "})}

\* the lazy (.+?) takes the shortest street
SpaceSeparated(address, tail, streetEnds) ==
  Address(Trim(SubSeq(address, 1, CHOOSE i \in streetEnds : \A j \in streetEnds : i <= j)),
          Trim(SubSeq(address, (CHOOSE i \in streetEnds : \A j \in streetEnds : i <= j) + 1,
                      tail.pos - 1)),
          tail.state, tail.zipCode)

\* address.substring(0, address.length - stateZipMatch[0].length) for
\* /\s+([A-Z]{2})\s+(\d{5}(-\d{4})?)$/
BeforeStateZip(address, pos) ==
  SubSeq(address, 1, pos - 1 - SpacesBefore(address, pos))

\* the patterns tried on the whole address
ParseByTail(address, tail) ==
  IF tail.ok /\ StreetEnds(address, tail.pos) # {}
    THEN SpaceSeparated(address, tail, StreetEnds(address, tail.pos))
  ELSE IF /\ tail.ok
          /\ SpacesBefore(address, tail.pos) >= 1
          /\ Len(SplitWords(Trim(BeforeStateZip(address, tail.pos)))) >= 2
    THEN StreetAndCity(SplitWords(Trim(BeforeStateZip(address, tail.pos))), tail)
  ELSE Address(address, << >>, << >>, << >>)

\* the patterns tried on the comma-separated parts, then the others
ParseCommaParts(address, commaParts) ==
  IF Len(commaParts) >= 3 /\ MatchStateZip(commaParts[Len(commaParts)], 0).ok
    THEN Address(Join(SubSeq(commaParts, 1, Len(commaParts) - 2), << ",", " " >>),
                 commaParts[Len(commaParts) - 1],
                 MatchStateZip(commaParts[Len(commaParts)], 0).state,
                 MatchStateZip(commaParts[Len(commaParts)], 0).zipCode)
  ELSE IF /\ Len(commaParts) = 2
          /\ MatchStateZip(commaParts[2], 1).ok
          /\ Len(SplitWords(Trim(commaParts[1]))) >= 2
    THEN StreetAndCity(SplitWords(Trim(commaParts[1])), MatchStateZip(commaParts[2], 1))
  ELSE ParseByTail(address, StateZipTail(address))

parseAddress(address) == ParseCommaParts(address, CommaParts(address))

----------------------------------------------------------------------------
(* Form1099ToForm1040Mapper.map1099ToForm1040 *)

\* form.line = (form.line || 0) + amount, when amount > 0
AddToLine(f, line, amount) ==
  IF amount > 0 THEN Put(f, line, OrZero(f, line) + amount) ELSE f

\* if (!form.ledger) form.ledger = {}; form.ledger.key = (form.ledger.key || 0) + amount
AddToLedger(f, ledger, key, amount) ==
  IF amount > 0
    THEN Put(f, ledger, Put(Sub(f, ledger), key, OrZero(Sub(f, ledger), key) + amount))
    ELSE f

\* Box 9: form.amtAdjustments.privateActivityBondInterest = amount
SetAmtAdjustment(f, amount) ==
  IF amount > 0
    THEN Put(f, "amtAdjustments",
             Put(Sub(f, "amtAdjustments"), "privateActivityBondInterest", amount))
    ELSE f

\* a bond-premium reduction without the floor at zero
ReduceByBondPremium_Unfloored(f, bondPremium) ==
  IF bondPremium > 0
    THEN Put(f, "line2b", OrZero(f, "line2b") - bondPremium)
    ELSE f

\* Box 11: form.line2b = Math.max(0, (form.line2b || 0) - bondPremium)
ReduceByBondPremium(f, bondPremium) ==
  IF bondPremium > 0
    THEN Put(f, "line2b", Max(0, OrZero(f, "line2b") - bondPremium))
    ELSE f

\* Box 6: foreign tax paid and the country it was paid to
AddForeignTax(f, foreignTaxPaid, foreignCountry) ==
  IF foreignTaxPaid > 0
    THEN Put(f, "foreignTaxCredit",
             Put(Put(Sub(f, "foreignTaxCredit"), "foreignTaxPaid",
                     OrZero(Sub(f, "foreignTaxCredit"), "foreignTaxPaid") + foreignTaxPaid),
                 "foreignCountry", foreignCountry))
    ELSE f

\* the data may be nested under extractedData
Actual1099Data(form1099Data) ==
  IF Has(form1099Data, "extractedData") THEN form1099Data["extractedData"] ELSE form1099Data

\* form1040Data.personalInfo?.sourceDocument?.includes('W2')
SourcedFromW2(form1040Data) ==
  Includes(Text(Sub(form1040Data, "personalInfo"), "sourceDocument"), << "W", "2" >>)

\* actual1099Data[flat] || actual1099Data.Recipient?.[nested] || actual1099Data[dotted]
RecipientField(a, flat, nested, dotted) ==
  OrText(OrText(Text(a, flat), Text(Sub(a, "Recipient"), nested)), Text(a, dotted))

\* lines 31-41: the recipient's name, unless a W-2 supplied one
MapRecipientName(form1040Data, recipientName) ==
  IF Len(recipientName) > 0
       /\ (Len(Text(form1040Data, "firstName")) = 0 \/ ~SourcedFromW2(form1040Data))
    THEN Put(Put(form1040Data, "firstName", SplitWords(Trim(recipientName))[1]),
             "lastName", Join(Tail(SplitWords(Trim(recipientName))), << " " >>))
    ELSE form1040Data

\* the recipient's TIN taken whatever the source of the personal information
MapRecipientTIN_OverW2(form1040Data, recipientTIN) ==
  IF Len(recipientTIN) > 0
    THEN Put(form1040Data, "ssn", formatSSN(recipientTIN))
    ELSE form1040Data

\* lines 43-51: the recipient's TIN, unless a W-2 supplied one
MapRecipientTIN(form1040Data, recipientTIN) ==
  IF Len(recipientTIN) > 0
       /\ (Len(Text(form1040Data, "ssn")) = 0 \/ ~SourcedFromW2(form1040Data))
    THEN Put(form1040Data, "ssn", formatSSN(recipientTIN))
    ELSE form1040Data

SetAddress(form1040Data, addressParts) ==
  Put(Put(Put(Put(form1040Data, "address", addressParts.street),
              "city", addressParts.city),
          "state", addressParts.state),
      "zipCode", addressParts.zipCode)

\* lines 54-69: the recipient's address, unless a W-2 supplied one
MapRecipientAddress(form1040Data, recipientAddress) ==
  IF Len(recipientAddress) > 0
       /\ (Len(Text(form1040Data, "address")) = 0 \/ ~SourcedFromW2(form1040Data))
    THEN SetAddress(form1040Data, parseAddress(recipientAddress))
    ELSE form1040Data

\* lines 72-88: create or update the personalInfo object
SetPersonalInfo(form1040Data, sourceDocument, documentId) ==
  IF ~Has(form1040Data, "personalInfo") \/ ~SourcedFromW2(form1040Data)
    THEN Put(form1040Data, "personalInfo",
             [firstName |-> Text(form1040Data, "firstName"),
              lastName |-> Text(form1040Data, "lastName"),
              ssn |-> Text(form1040Data, "ssn"),
              address |-> Text(form1040Data, "address"),
              city |-> Text(form1040Data, "city"),
              state |-> Text(form1040Data, "state"),
              zipCode |-> Text(form1040Data, "zipCode"),
              sourceDocument |->
                IF Len(sourceDocument) > 0
                  THEN sourceDocument \o << ",", " ", "1", "0", "9", "9" >>
                  ELSE << "1", "0", "9", "9" >>,
              sourceDocumentId |->
                OrText(documentId, << "u", "n", "k", "n", "o", "w", "n" >>)])
    ELSE form1040Data

\* the personal information block: name, TIN and address of the recipient,
\* unless a W-2 already supplied them, and the personalInfo object
MapPersonalInformation(a, form1040Data) ==
  SetPersonalInfo(
    MapRecipientAddress(
      MapRecipientTIN(
        MapRecipientName(form1040Data,
                         RecipientField(a, "recipientName", "Name", "Recipient.Name")),
        RecipientField(a, "recipientTIN", "TIN", "Recipient.TIN")),
      RecipientField(a, "recipientAddress", "Address", "Recipient.Address")),
    Text(Sub(form1040Data, "personalInfo"), "sourceDocument"),
    Text(a, "documentId"))

map1099ToForm1040(form1099Data, existingForm1040) ==
  LET a == Actual1099Data(form1099Data)
      amt(k) == parseAmount(Field(a, k))
      s0 == MapPersonalInformation(a, existingForm1040)
      s1 == AddToLine(s0, "line2b", amt("interestIncome"))
      s2 == AddToLine(s1, "line2b", amt("interestOnUSavingsBonds"))
      s3 == AddToLine(s2, "line2a", amt("taxExemptInterest"))
      s4 == SetAmtAdjustment(s3, amt("specifiedPrivateActivityBondInterest"))
      s5 == AddToLine(s4, "line2b", amt("marketDiscount"))
      s6 == ReduceByBondPremium(s5, amt("bondPremium"))
      s7 == AddToLedger(s6, "scheduleA", "stateTaxWithheld", amt("stateTaxWithheld"))
      s8 == AddToLedger(s7, "stateData", "interestIncome", amt("stateInterest"))
      s9 == AddToLedger(s8, "schedule1", "earlyWithdrawalPenalty", amt("earlyWithdrawalPenalty"))
      s10 == AddToLedger(s9, "scheduleA", "investmentExpenses", amt("investmentExpenses"))
      s11 == AddForeignTax(s10, amt("foreignTaxPaid"),
                           IF Has(a, "foreignCountry") THEN a["foreignCountry"] ELSE "Unknown")
      s12 == AddToLine(s11, "line3b", amt("ordinaryDividends"))
      s13 == AddToLine(s12, "line3a", amt("qualifiedDividends"))
      s14 == AddToLine(s13, "line7", amt("totalCapitalGain"))
      s15 == AddToLine(s14, "line8", amt("rents"))
      s16 == AddToLine(s15, "line8", amt("royalties"))
      s17 == AddToLine(s16, "line8", amt("otherIncome"))
      s18 == AddToLine(s17, "line8", amt("nonemployeeCompensation"))
      federalTaxWithheldValue ==
        OrElse(Field(a, "federalTaxWithheld"), Field(a, "FederalIncomeTaxWithheld"))
      s19 == AddToLine(s18, "line25a", parseAmount(federalTaxWithheldValue))
  IN recalculateForm1040Totals(s19)

----------------------------------------------------------------------------
(* AbstractForm1040 and Standard1040Form *)

StandardDeductions ==
  [SINGLE |-> Dollars(13850),
   MARRIED_FILING_JOINTLY |-> Dollars(27700),
   MARRIED_FILING_SEPARATELY |-> Dollars(13850),
   HEAD_OF_HOUSEHOLD |-> Dollars(20800),
   QUALIFYING_SURVIVING_SPOUSE |-> Dollars(27700)]

TaxBrackets ==
  [SINGLE |->
     << Bracket(Dollars(0), Dollars(11000), 10),
        Bracket(Dollars(11000), Dollars(44725), 12),
        Bracket(Dollars(44725), Dollars(95375), 22),
        Bracket(Dollars(95375), Dollars(182050), 24),
        Bracket(Dollars(182050), Dollars(231250), 32),
        Bracket(Dollars(231250), Dollars(578125), 35),
        Bracket(Dollars(578125), Infinity, 37) >>,
   MARRIED_FILING_JOINTLY |->
     << Bracket(Dollars(0), Dollars(22000), 10),
        Bracket(Dollars(22000), Dollars(89450), 12),
        Bracket(Dollars(89450), Dollars(190750), 22),
        Bracket(Dollars(190750), Dollars(364200), 24),
        Bracket(Dollars(364200), Dollars(462500), 32),
        Bracket(Dollars(462500), Dollars(693750), 35),
        Bracket(Dollars(693750), Infinity, 37) >>,
   MARRIED_FILING_SEPARATELY |->
     << Bracket(Dollars(0), Dollars(11000), 10),
        Bracket(Dollars(11000), Dollars(44725), 12),
        Bracket(Dollars(44725), Dollars(95375), 22),
        Bracket(Dollars(95375), Dollars(182050), 24),
        Bracket(Dollars(182050), Dollars(231250), 32),
        Bracket(Dollars(231250), Dollars(346875), 35),
        Bracket(Dollars(346875), Infinity, 37) >>,
   HEAD_OF_HOUSEHOLD |->
     << Bracket(Dollars(0), Dollars(15700), 10),
        Bracket(Dollars(15700), Dollars(59850), 12),
        Bracket(Dollars(59850), Dollars(95350), 22),
        Bracket(Dollars(95350), Dollars(182050), 24),
        Bracket(Dollars(182050), Dollars(231250), 32),
        Bracket(Dollars(231250), Dollars(578100), 35),
        Bracket(Dollars(578100), Infinity, 37) >>,
   QUALIFYING_SURVIVING_SPOUSE |->
     << Bracket(Dollars(0), Dollars(22000), 10),
        Bracket(Dollars(22000), Dollars(89450), 12),
        Bracket(Dollars(89450), Dollars(190750), 22),
        Bracket(Dollars(190750), Dollars(364200), 24),
        Bracket(Dollars(364200), Dollars(462500), 32),
        Bracket(Dollars(462500), Dollars(693750), 35),
        Bracket(Dollars(693750), Infinity, 37) >> ]

ChildTaxCreditMax == Dollars(2000)

PhaseoutThreshold ==
  [SINGLE |-> Dollars(200000),
   MARRIED_FILING_JOINTLY |-> Dollars(400000),
   MARRIED_FILING_SEPARATELY |-> Dollars(200000),
   HEAD_OF_HOUSEHOLD |-> Dollars(200000),
   QUALIFYING_SURVIVING_SPOUSE |-> Dollars(400000)]

Standard_getStandardDeduction(filingStatus) ==
  IF filingStatus \in DOMAIN StandardDeductions
    THEN StandardDeductions[filingStatus]
    ELSE StandardDeductions["SINGLE"]

getTaxBrackets(filingStatus) ==
  IF filingStatus \in DOMAIN TaxBrackets
    THEN TaxBrackets[filingStatus]
    ELSE TaxBrackets["SINGLE"]

Abstract_calculateTotalIncome(formData) ==
  OrZero(formData, "line1") + OrZero(formData, "line2b")
    + OrZero(formData, "line3b") + OrZero(formData, "line4b")
    + OrZero(formData, "line5b") + OrZero(formData, "line6b")
    + OrZero(formData, "line7") + OrZero(formData, "line8")

calculateAGI(formData) ==
  Abstract_calculateTotalIncome(formData) - OrZero(formData, "line10")

\* a taxable income without the clamp at zero
calculateTaxableIncome_Unclamped(formData) ==
  LET agi == Abstract_calculateTotalIncome(formData) - OrZero(formData, "line10")
      standardDeduction ==
        IF FilingStatusOf(formData) \in DOMAIN StandardDeductions
          THEN StandardDeductions[FilingStatusOf(formData)]
          ELSE StandardDeductions["SINGLE"]
      deductions == Max(standardDeduction, OrZero(formData, "line12"))
      qbiDeduction == OrZero(formData, "line13")
  IN agi - deductions - qbiDeduction

calculateTaxableIncome(formData) ==
  LET agi == calculateAGI(formData)
      standardDeduction == Standard_getStandardDeduction(FilingStatusOf(formData))
      deductions == Max(standardDeduction, OrZero(formData, "line12"))
      qbiDeduction == OrZero(formData, "line13")
  IN Max(0, agi - deductions - qbiDeduction)

Abstract_calculateTaxLiability(taxableIncome, filingStatus) ==
  RoundToCents(BracketLoop(getTaxBrackets(filingStatus), 1, taxableIncome, 0))

\* formData.dependents is a sequence of [qualifiesForCTC |-> BOOLEAN]
calculateChildTaxCredit(formData) ==
  LET agi == calculateAGI(formData)
      fs == FilingStatusOf(formData)
      dependents == IF Has(formData, "dependents") THEN formData["dependents"] ELSE << >>
      qualifyingChildren ==
        Cardinality({i \in DOMAIN dependents : dependents[i].qualifiesForCTC})
  IN IF fs \in DOMAIN PhaseoutThreshold /\ agi > PhaseoutThreshold[fs]
       THEN 0
       ELSE Min(qualifyingChildren * ChildTaxCreditMax, ChildTaxCreditMax * 3)

calculateTax(formData) ==
  LET totalIncome == Abstract_calculateTotalIncome(formData)
      adjustedGrossIncome == calculateAGI(formData)
      taxableIncome == calculateTaxableIncome(formData)
      baseTaxLiability ==
        Abstract_calculateTaxLiability(taxableIncome, FilingStatusOf(formData))
      additionalTax == OrZero(formData, "line17")
      grossTaxLiability == baseTaxLiability + additionalTax
      childTaxCredit == calculateChildTaxCredit(formData)
      otherCredits == OrZero(formData, "line20")
      totalCredits == childTaxCredit + otherCredits
      netTaxLiability == Max(0, grossTaxLiability - totalCredits)
      otherTaxes == OrZero(formData, "line23")
      totalTax == netTaxLiability + otherTaxes
      totalWithholdings ==
        OrZero(formData, "line25a") + OrZero(formData, "line25b")
          + OrZero(formData, "line25c") + OrZero(formData, "line25d")
      overpaid == Max(0, totalWithholdings - totalTax)
      amountOwed == Max(0, totalTax - totalWithholdings)
  IN [totalIncome |-> totalIncome,
      adjustedGrossIncome |-> adjustedGrossIncome,
      taxableIncome |-> taxableIncome,
      taxLiability |-> totalTax,
      totalCredits |-> totalCredits,
      totalWithholdings |-> totalWithholdings,
      refundAmount |-> overpaid,
      amountOwed |-> amountOwed]

\* this.formData = { ...this.formData, ...updates }
MergeUpdates(formData, upd) ==
  [k \in (DOMAIN formData) \cup (DOMAIN upd) |->
     IF k \in DOMAIN upd THEN upd[k] ELSE formData[k]]

----------------------------------------------------------------------------
(* AzureDocumentIntelligenceService.validateAndCorrect1099MiscFields *)
(* The structured data and the data the text patterns found are objects   *)
(* whose amounts are numbers, in cents.                                   *)

Abs(n) == IF n < 0 THEN 0 - n ELSE n

criticalFields ==
  << "otherIncome", "fishingBoatProceeds", "medicalHealthPayments",
     "rents", "royalties", "federalTaxWithheld" >>

adjacentBoxPairs ==
  << << "rents", "royalties" >>,
     << "royalties", "otherIncome" >>,
     << "otherIncome", "federalTaxWithheld" >>,
     << "federalTaxWithheld", "fishingBoatProceeds" >>,
     << "fishingBoatProceeds", "medicalHealthPayments" >> >>

\* "more than $100"
CorrectionThreshold == Dollars(100)

\* one round of the loop over the critical fields
CorrectField(correctedData, structuredValue, ocrValue, field) ==
  IF Abs(structuredValue - ocrValue) > CorrectionThreshold
    THEN Put(correctedData, field, ocrValue)
  ELSE IF structuredValue = 0 /\ ocrValue > 0
    THEN Put(correctedData, field, ocrValue)
  ELSE correctedData

RECURSIVE CorrectCriticalFields(_, _, _, _)
CorrectCriticalFields(correctedData, structured, ocr, i) ==
  IF i > Len(criticalFields)
    THEN correctedData
    ELSE CorrectCriticalFields(
           CorrectField(correctedData, OrZero(structured, criticalFields[i]),
                        OrZero(ocr, criticalFields[i]), criticalFields[i]),
           structured, ocr, i + 1)

\* Pattern 1: other income mapped to fishing boat proceeds
CrossContaminated(structured, ocr) ==
  /\ OrZero(structured, "fishingBoatProceeds") # 0
  /\ OrZero(structured, "otherIncome") = 0
  /\ OrZero(ocr, "otherIncome") # 0
  /\ OrZero(ocr, "fishingBoatProceeds") # 0
  /\ Abs(structured["fishingBoatProceeds"] - ocr["otherIncome"]) < CorrectionThreshold
  /\ ocr["fishingBoatProceeds"] # structured["fishingBoatProceeds"]

CorrectCrossContamination(correctedData, structured, ocr) ==
  IF CrossContaminated(structured, ocr)
    THEN Put(Put(correctedData, "otherIncome", ocr["otherIncome"]),
             "fishingBoatProceeds", ocr["fishingBoatProceeds"])
    ELSE correctedData

\* Pattern 2: the values of two adjacent boxes are swapped
AdjacentSwap(structured, ocr, field1, field2) ==
  /\ OrZero(structured, field1) > 0
  /\ OrZero(structured, field2) > 0
  /\ OrZero(ocr, field1) > 0
  /\ OrZero(ocr, field2) > 0
  /\ Abs(structured[field1] - ocr[field2]) < CorrectionThreshold
  /\ Abs(structured[field2] - ocr[field1]) < CorrectionThreshold

RECURSIVE CorrectAdjacentSwaps(_, _, _, _)
CorrectAdjacentSwaps(correctedData, structured, ocr, i) ==
  IF i > Len(adjacentBoxPairs)
    THEN correctedData
    ELSE CorrectAdjacentSwaps(
           IF AdjacentSwap(structured, ocr, adjacentBoxPairs[i][1], adjacentBoxPairs[i][2])
             THEN Put(Put(correctedData, adjacentBoxPairs[i][1], ocr[adjacentBoxPairs[i][1]]),
                      adjacentBoxPairs[i][2], ocr[adjacentBoxPairs[i][2]])
             ELSE correctedData,
           structured, ocr, i + 1)

\* ocr stands for extract1099MiscFieldsFromOCR(ocrText)
validateAndCorrect1099MiscFields(structured, ocr) ==
  CorrectAdjacentSwaps(
    CorrectCrossContamination(
      CorrectCriticalFields(structured, structured, ocr, 1), structured, ocr),
    structured, ocr, 1)

----------------------------------------------------------------------------
(* AzureDocumentIntelligenceService: the document classifier *)

LowerCaseOf ==
  [A |-> "a", B |-> "b", C |-> "c", D |-> "d", E |-> "e", F |-> "f", G |-> "g",
   H |-> "h", I |-> "i", J |-> "j", K |-> "k", L |-> "l", M |-> "m", N |-> "n",
   O |-> "o", P |-> "p", Q |-> "q", R |-> "r", S |-> "s", T |-> "t", U |-> "u",
   V |-> "v", W |-> "w", X |-> "x", Y |-> "y", Z |-> "z"]

\* String.prototype.toLowerCase
toLowerCase(s) ==
  [i \in 1..Len(s) |-> IF s[i] \in UpperLetters THEN LowerCaseOf[s[i]] ELSE s[i]]

w2Indicators ==
  << << "f", "o", "r", "m", " ", "w", "-", "2" >>,
     << "w", "a", "g", "e", " ", "a", "n", "d", " ", "t", "a", "x", " ", "s", "t", "a", "t", "e", "m", "e", "n", "t" >>,
     << "w", "a", "g", "e", "s", ",", " ", "t", "i", "p", "s", ",", " ", "o", "t", "h", "e", "r", " ", "c", "o", "m", "p", "e", "n", "s", "a", "t", "i", "o", "n" >>,
     << "f", "e", "d", "e", "r", "a", "l", " ", "i", "n", "c", "o", "m", "e", " ", "t", "a", "x", " ", "w", "i", "t", "h", "h", "e", "l", "d" >>,
     << "s", "o", "c", "i", "a", "l", " ", "s", "e", "c", "u", "r", "i", "t", "y", " ", "w", "a", "g", "e", "s" >>,
     << "m", "e", "d", "i", "c", "a", "r", "e", " ", "w", "a", "g", "e", "s" >> >>

form1099Indicators ==
  << << "f", "o", "r", "m", " ", "1", "0", "9", "9" >>,
     << "1", "0", "9", "9", "-" >>,
     << "p", "a", "y", "e", "r" >>,
     << "r", "e", "c", "i", "p", "i", "e", "n", "t" >>,
     << "t", "i", "n" >> >>

formTypePatterns ==
  << [type |-> "FORM_1099_DIV",
      indicators |->
        << << "f", "o", "r", "m", " ", "1", "0", "9", "9", "-", "d", "i", "v" >>,
           << "d", "i", "v", "i", "d", "e", "n", "d", "s", " ", "a", "n", "d", " ", "d", "i", "s", "t", "r", "i", "b", "u", "t", "i", "o", "n", "s" >>,
           << "o", "r", "d", "i", "n", "a", "r", "y", " ", "d", "i", "v", "i", "d", "e", "n", "d", "s" >>,
           << "q", "u", "a", "l", "i", "f", "i", "e", "d", " ", "d", "i", "v", "i", "d", "e", "n", "d", "s" >>,
           << "t", "o", "t", "a", "l", " ", "c", "a", "p", "i", "t", "a", "l", " ", "g", "a", "i", "n", " ", "d", "i", "s", "t", "r", "i", "b", "u", "t", "i", "o", "n", "s" >>,
           << "c", "a", "p", "i", "t", "a", "l", " ", "g", "a", "i", "n", " ", "d", "i", "s", "t", "r", "i", "b", "u", "t", "i", "o", "n", "s" >> >>],
     [type |-> "FORM_1099_INT",
      indicators |->
        << << "f", "o", "r", "m", " ", "1", "0", "9", "9", "-", "i", "n", "t" >>,
           << "i", "n", "t", "e", "r", "e", "s", "t", " ", "i", "n", "c", "o", "m", "e" >>,
           << "e", "a", "r", "l", "y", " ", "w", "i", "t", "h", "d", "r", "a", "w", "a", "l", " ", "p", "e", "n", "a", "l", "t", "y" >>,
           << "i", "n", "t", "e", "r", "e", "s", "t", " ", "o", "n", " ", "u", ".", "s", ".", " ", "t", "r", "e", "a", "s", "u", "r", "y", " ", "o", "b", "l", "i", "g", "a", "t", "i", "o", "n", "s" >>,
           << "i", "n", "v", "e", "s", "t", "m", "e", "n", "t", " ", "e", "x", "p", "e", "n", "s", "e", "s" >> >>],
     [type |-> "FORM_1099_MISC",
      indicators |->
        << << "f", "o", "r", "m", " ", "1", "0", "9", "9", "-", "m", "i", "s", "c" >>,
           << "m", "i", "s", "c", "e", "l", "l", "a", "n", "e", "o", "u", "s", " ", "i", "n", "c", "o", "m", "e" >>,
           << "n", "o", "n", "e", "m", "p", "l", "o", "y", "e", "e", " ", "c", "o", "m", "p", "e", "n", "s", "a", "t", "i", "o", "n" >>,
           << "r", "e", "n", "t", "s" >>,
           << "r", "o", "y", "a", "l", "t", "i", "e", "s" >>,
           << "f", "i", "s", "h", "i", "n", "g", " ", "b", "o", "a", "t", " ", "p", "r", "o", "c", "e", "e", "d", "s" >> >>],
     [type |-> "FORM_1099_NEC",
      indicators |->
        << << "f", "o", "r", "m", " ", "1", "0", "9", "9", "-", "n", "e", "c" >>,
           << "n", "o", "n", "e", "m", "p", "l", "o", "y", "e", "e", " ", "c", "o", "m", "p", "e", "n", "s", "a", "t", "i", "o", "n" >>,
           << "n", "e", "c" >> >>] >>

\* the number of indicators the text includes
IndicatorScore(text, indicators) ==
  Cardinality({i \in 1..Len(indicators) : Includes(text, indicators[i])})

detectFormType(ocrText) ==
  IF IndicatorScore(toLowerCase(ocrText), w2Indicators)
       > IndicatorScore(toLowerCase(ocrText), form1099Indicators)
    THEN "W2"
  ELSE IF IndicatorScore(toLowerCase(ocrText), form1099Indicators) > 0
    THEN "1099"
  ELSE "UNKNOWN"

\* the loop over formTypePatterns, from pattern i on
RECURSIVE BestMatchLoop(_, _, _)
BestMatchLoop(text, i, bestMatch) ==
  IF i > Len(formTypePatterns)
    THEN bestMatch
    ELSE BestMatchLoop(
           text, i + 1,
           IF IndicatorScore(text, formTypePatterns[i].indicators) > bestMatch.score
             THEN [type |-> formTypePatterns[i].type,
                   score |-> IndicatorScore(text, formTypePatterns[i].indicators)]
             ELSE bestMatch)

detectSpecific1099Type(ocrText) ==
  BestMatchLoop(toLowerCase(ocrText), 1, [type |-> "FORM_1099_MISC", score |-> 0]).type

analyzeDocumentTypeFromOCR(ocrText) ==
  IF detectFormType(ocrText) = "W2" THEN "W2"
  ELSE IF detectFormType(ocrText) = "1099" THEN detectSpecific1099Type(ocrText)
  ELSE "UNKNOWN"

----------------------------------------------------------------------------
(* AzureDocumentIntelligenceService.extractDataFromDocument and the type   *)
(* correction of the POST route.  A result of the provider is a record of  *)
(* its text (content), whether it holds structured fields, and its         *)
(* key-value pairs.  The fields a type's mapping takes are not modelled:   *)
(* the extracted data is the text, the key-value pairs and the corrected   *)
(* document type.                                                          *)

\* the enumeration of @prisma/client, by the values the repository names
DocumentType ==
  {"W2", "FORM_1099_INT", "FORM_1099_DIV", "FORM_1099_MISC", "FORM_1099_NEC",
   "OTHER_TAX_DOCUMENT"}

\* Object.values(DocumentType).includes(value)
IsDocumentType_Any(value) == TRUE

IsDocumentType(value) == value \in DocumentType

getModelIdForDocumentType(documentType) ==
  IF documentType = "W2" THEN "prebuilt-tax.us.w2"
  ELSE IF documentType \in {"FORM_1099_INT", "FORM_1099_DIV", "FORM_1099_MISC", "FORM_1099_NEC"}
    THEN "prebuilt-tax.us.1099"
  ELSE "prebuilt-document"

extractTaxDocumentFields(result, documentType) ==
  IF result.hasFields
    THEN [fullText |-> result.content]
    ELSE [key \in DOMAIN result.keyValuePairs \cup {"fullText"} |->
            IF key \in DOMAIN result.keyValuePairs
              THEN result.keyValuePairs[key]
              ELSE result.content]

extractTaxDocumentFieldsFromOCR(result, documentType) ==
  [fullText |-> result.content]

\* the type correction: the text is not empty, the classifier's type is
\* known, differs from the document type and is of the enumeration
TypeCorrected(extractedData, documentType) ==
  /\ extractedData.fullText # << >>
  /\ analyzeDocumentTypeFromOCR(extractedData.fullText) # "UNKNOWN"
  /\ analyzeDocumentTypeFromOCR(extractedData.fullText) # documentType
  /\ IsDocumentType(analyzeDocumentTypeFromOCR(extractedData.fullText))

\* the data of one analysis, extracted again with the corrected type and
\* carrying it
ExtractAndCorrect(extractedData, reExtractedData, documentType) ==
  IF TypeCorrected(extractedData, documentType)
    THEN Put(reExtractedData, "correctedDocumentType",
             analyzeDocumentTypeFromOCR(extractedData.fullText))
    ELSE extractedData

\* the catch of the tax model's error: is the model unavailable
ModelUnavailable_Always(modelError) == TRUE

ModelUnavailable(modelError) ==
  \/ Includes(modelError.message, << "M", "o", "d", "e", "l", "N", "o", "t", "F", "o", "u", "n", "d" >>)
  \/ Includes(modelError.message, << "R", "e", "s", "o", "u", "r", "c", "e", " ", "n", "o", "t", " ", "f", "o", "u", "n", "d" >>)
  \/ modelError.code = "NotFound"

Returned(extractedData, calls) ==
  [thrown |-> FALSE, data |-> extractedData, calls |-> calls]

Thrown(calls) ==
  [thrown |-> TRUE, data |-> EmptyObject, calls |-> calls]

\* the fallback to the text-only model
FallbackToRead(result, documentType, readError, calls) ==
  IF readError.failed
    THEN Thrown(Append(calls, "prebuilt-read"))
    ELSE Returned(
           ExtractAndCorrect(
             extractTaxDocumentFieldsFromOCR(result, documentType),
             extractTaxDocumentFieldsFromOCR(
               result, analyzeDocumentTypeFromOCR(result.content)),
             documentType),
           Append(calls, "prebuilt-read"))

\* result: what the provider makes of the document; modelError, readError:
\* the errors of the tax model and of the text-only model, if they fail
extractDataFromDocument(result, documentType, modelError, readError) ==
  IF ~modelError.failed
    THEN Returned(
           ExtractAndCorrect(
             extractTaxDocumentFields(result, documentType),
             extractTaxDocumentFields(
               result, analyzeDocumentTypeFromOCR(result.content)),
             documentType),
           << getModelIdForDocumentType(documentType) >>)
  ELSE IF ModelUnavailable(modelError)
    THEN FallbackToRead(result, documentType, readError,
                        << getModelIdForDocumentType(documentType) >>)
  ELSE Thrown(<< getModelIdForDocumentType(documentType) >>)

\* the route: is the corrected type of the extracted data taken
CorrectionTaken(extractedData) ==
  /\ Has(extractedData, "correctedDocumentType")
  /\ IsDocumentType(extractedData.correctedDocumentType)

\* the route: finalDocumentType
FinalDocumentType(extractedData, documentType) ==
  IF CorrectionTaken(extractedData)
    THEN extractedData.correctedDocumentType
    ELSE documentType

----------------------------------------------------------------------------
(* The POST route after the extraction: income entries and aggregation.    *)
(* The extracted amounts are numbers, in cents.  A row of the income entry *)
(* table is a record of the document it came from, its type, what the      *)
(* description says of it, its amount and the tax withheld.  The rows of   *)
(* documentExtractedEntry are not modelled: step 9 is its outcome.         *)

\* parseFloat(String(extractedData[key] || 0)) of a number
AmountOf(extractedData, key) == OrZero(extractedData, key)

\* prisma.incomeEntry.create of one entry, if its amount is positive
IncomeEntryIf(extractedData, documentId, key, incomeType, description, federalTaxWithheld) ==
  IF AmountOf(extractedData, key) > 0
    THEN << [documentId |-> documentId,
             incomeType |-> incomeType,
             description |-> description,
             amount |-> AmountOf(extractedData, key),
             federalTaxWithheld |-> federalTaxWithheld] >>
    ELSE << >>

createW2IncomeEntries(extractedData, documentId) ==
  IncomeEntryIf(extractedData, documentId, "wages", "W2_WAGES", "W-2 Wages",
                AmountOf(extractedData, "federalTaxWithheld"))

create1099IntIncomeEntries(extractedData, documentId) ==
  IncomeEntryIf(extractedData, documentId, "interestIncome", "INTEREST",
                "Interest Income", AmountOf(extractedData, "federalTaxWithheld"))
  \o IncomeEntryIf(extractedData, documentId, "interestOnUSavingsBonds", "INTEREST",
                   "US Savings Bonds Interest", 0)

create1099DivIncomeEntries(extractedData, documentId) ==
  IncomeEntryIf(extractedData, documentId, "ordinaryDividends", "DIVIDENDS",
                "Dividends", AmountOf(extractedData, "federalTaxWithheld"))

create1099MiscIncomeEntries(extractedData, documentId) ==
  IncomeEntryIf(extractedData, documentId, "otherIncome", "OTHER_INCOME",
                "Other Income", AmountOf(extractedData, "federalTaxWithheld"))
  \o IncomeEntryIf(extractedData, documentId, "rents", "OTHER_INCOME",
                   "Rental Income", AmountOf(extractedData, "federalTaxWithheld"))
  \o IncomeEntryIf(extractedData, documentId, "royalties", "OTHER_INCOME",
                   "Royalties", AmountOf(extractedData, "federalTaxWithheld"))

create1099NecIncomeEntries(extractedData, documentId) ==
  IncomeEntryIf(extractedData, documentId, "nonemployeeCompensation",
                "BUSINESS_INCOME", "Nonemployee Compensation",
                AmountOf(extractedData, "federalTaxWithheld"))

\* the entries the route creates for a document, in the order of their
\* creation
createIncomeEntriesFromExtractedData(documentType, extractedData, documentId) ==
  IF documentType = "W2" THEN createW2IncomeEntries(extractedData, documentId)
  ELSE IF documentType = "FORM_1099_INT"
    THEN create1099IntIncomeEntries(extractedData, documentId)
  ELSE IF documentType = "FORM_1099_DIV"
    THEN create1099DivIncomeEntries(extractedData, documentId)
  ELSE IF documentType = "FORM_1099_MISC"
    THEN create1099MiscIncomeEntries(extractedData, documentId)
  ELSE IF documentType = "FORM_1099_NEC"
    THEN create1099NecIncomeEntries(extractedData, documentId)
  ELSE << >>

\* entries.reduce((sum, entry) => sum + entry.amount, 0)
RECURSIVE SumOfAmounts(_)
SumOfAmounts(entries) ==
  IF entries = << >> THEN 0
  ELSE Head(entries).amount + SumOfAmounts(Tail(entries))

\* entries.reduce((sum, entry) => sum + (entry.federalTaxWithheld || 0), 0)
RECURSIVE SumOfWithholdings(_)
SumOfWithholdings(entries) ==
  IF entries = << >> THEN 0
  ELSE Head(entries).federalTaxWithheld + SumOfWithholdings(Tail(entries))

\* the data updateIncomeAggregation writes to the tax return
AggregationOf(entries) ==
  [totalIncome |-> SumOfAmounts(entries),
   adjustedGrossIncome |-> SumOfAmounts(entries),
   totalWithholdings |-> SumOfWithholdings(entries)]

----------------------------------------------------------------------------
(* Form1099ToForm1040Mapper.validate1099DataForMapping *)

incomeDataFields ==
  << "interestIncome", "ordinaryDividends", "qualifiedDividends", "totalCapitalGain",
     "rents", "royalties", "otherIncome", "nonemployeeCompensation" >>

hasIncomeData(form1099Data) ==
  \E i \in 1..Len(incomeDataFields) : Truthy(Field(form1099Data, incomeDataFields[i]))

\* errors.push(message) if the condition holds
PushIf(condition, message) == IF condition THEN << message >> ELSE << >>

ValidationErrors(form1099Data) ==
  PushIf(~hasIncomeData(form1099Data), "No income data found in 1099 form")

ValidationWarnings(form1099Data) ==
  PushIf(Len(Text(form1099Data, "recipientName")) = 0,
         "Recipient name not found - personal info may not be auto-populated")
  \o PushIf(Len(Text(form1099Data, "recipientTIN")) = 0,
            "Recipient TIN not found - SSN field may not be auto-populated")
  \o PushIf(Len(Text(form1099Data, "recipientAddress")) = 0,
            "Recipient address not found - address fields may not be auto-populated")
  \o PushIf(Len(Text(form1099Data, "payerName")) = 0,
            "Payer name not found - may be needed for verification")
  \o PushIf(Len(Text(form1099Data, "payerTIN")) = 0,
            "Payer TIN not found - may be needed for verification")
  \o PushIf(~Truthy(Field(form1099Data, "federalTaxWithheld")),
            "Federal tax withheld not found - no withholdings will be applied")

validate1099DataForMapping(form1099Data) ==
  [isValid |-> Len(ValidationErrors(form1099Data)) = 0,
   errors |-> ValidationErrors(form1099Data),
   warnings |-> ValidationWarnings(form1099Data)]

----------------------------------------------------------------------------
(* AzureDocumentIntelligenceService.selectPrimaryEmployeeRecord.  A record *)
(* of an employee is an object with the keys name, ssn, address,           *)
(* confidence; a final score is in halves of a point, so that a similarity *)
(* of thirds or quarters times 30 is a whole number.                       *)

UpperCaseOf ==
  [a |-> "A", b |-> "B", c |-> "C", d |-> "D", e |-> "E", f |-> "F", g |-> "G",
   h |-> "H", i |-> "I", j |-> "J", k |-> "K", l |-> "L", m |-> "M", n |-> "N",
   o |-> "O", p |-> "P", q |-> "Q", r |-> "R", s |-> "S", t |-> "T", u |-> "U",
   v |-> "V", w |-> "W", x |-> "X", y |-> "Y", z |-> "Z"]

\* String.prototype.toUpperCase
toUpperCase(s) ==
  [i \in 1..Len(s) |-> IF s[i] \in LowerLetters THEN UpperCaseOf[s[i]] ELSE s[i]]

\* name.trim().toUpperCase().replace(/\s+/g, ' ')
normalizeNameForMatching(name) ==
  Join(SplitWords(toUpperCase(Trim(name))), << " " >>)

\* Array.prototype.includes
ArrayIncludes(array, value) == \E i \in 1..Len(array) : array[i] = value

\* targetWords.every(word => recordWords.includes(word))
EveryWordIncluded(targetWords, recordWords) ==
  \A i \in 1..Len(targetWords) : ArrayIncludes(recordWords, targetWords[i])

\* the record has a name and it matches the target exactly or by its words
MatchesTarget_Never(record, normalizedTarget) == FALSE

MatchesTarget(record, normalizedTarget) ==
  /\ Len(Text(record, "name")) > 0
  /\ \/ normalizeNameForMatching(record.name) = normalizedTarget
     \/ EveryWordIncluded(SplitOn(normalizedTarget, " "),
                          SplitOn(normalizeNameForMatching(record.name), " "))

\* the record the loop over the records returns first
FirstMatching(employeeRecords, normalizedTarget) ==
  employeeRecords[
    CHOOSE i \in 1..Len(employeeRecords) :
      /\ MatchesTarget(employeeRecords[i], normalizedTarget)
      /\ \A j \in 1..(i - 1) : ~MatchesTarget(employeeRecords[j], normalizedTarget)]

\* the matching words and the total words of two lists of words
WordSimilarity(words1, words2) ==
  [matchingWords |->
     Cardinality({i \in 1..Len(words1) : ArrayIncludes(words2, words1[i])}),
   totalWords |-> Max(Len(words1), Len(words2))]

\* the similarity of two names, as a fraction
calculateNameSimilarity(name1, name2) ==
  IF normalizeNameForMatching(name1) = normalizeNameForMatching(name2)
    THEN [matchingWords |-> 1, totalWords |-> 1]
    ELSE WordSimilarity(SplitOn(normalizeNameForMatching(name1), " "),
                        SplitOn(normalizeNameForMatching(name2), " "))

\* similarity * 30, in halves of a point
SimilarityBonus(similarity) ==
  (60 * similarity.matchingWords) \div similarity.totalWords

\* the points for completeness and for the kind of name
CompletenessScore(record) ==
  record.confidence
    + (IF Len(Text(record, "name")) > 0 THEN 10 ELSE 0)
    + (IF Len(Text(record, "ssn")) > 0 THEN 20 ELSE 0)
    + (IF Len(Text(record, "address")) > 0 THEN 15 ELSE 0)
    - (IF Len(Text(record, "name")) > 0 /\ Len(record.name) < 6 THEN 10 ELSE 0)
    + (IF /\ Len(Text(record, "name")) > 0
          /\ ~Includes(toLowerCase(record.name), << "i", "n", "c" >>)
          /\ ~Includes(toLowerCase(record.name), << "l", "l", "c" >>)
          /\ ~Includes(toLowerCase(record.name), << "c", "o", "r", "p" >>)
         THEN 5 ELSE 0)

FinalScore(record, targetEmployeeName) ==
  2 * CompletenessScore(record)
    + (IF Len(targetEmployeeName) > 0 /\ Len(Text(record, "name")) > 0
         THEN SimilarityBonus(calculateNameSimilarity(targetEmployeeName, record.name))
         ELSE 0)

\* scoredRecords after the sort: the first record of the highest final score
BestScored(employeeRecords, targetEmployeeName) ==
  Put(employeeRecords[
        CHOOSE i \in 1..Len(employeeRecords) :
          /\ \A j \in 1..Len(employeeRecords) :
               FinalScore(employeeRecords[j], targetEmployeeName)
                 <= FinalScore(employeeRecords[i], targetEmployeeName)
          /\ \A j \in 1..(i - 1) :
               FinalScore(employeeRecords[j], targetEmployeeName)
                 < FinalScore(employeeRecords[i], targetEmployeeName)],
      "finalScore",
      LET best == CHOOSE i \in 1..Len(employeeRecords) :
                    \A j \in 1..Len(employeeRecords) :
                      FinalScore(employeeRecords[j], targetEmployeeName)
                        <= FinalScore(employeeRecords[i], targetEmployeeName)
      IN FinalScore(employeeRecords[best], targetEmployeeName))

Null == [null |-> TRUE]

\* targetEmployeeName is '' when it is not given
selectPrimaryEmployeeRecord(employeeRecords, targetEmployeeName) ==
  IF Len(employeeRecords) = 0 THEN Null
  ELSE IF Len(employeeRecords) = 1 THEN employeeRecords[1]
  ELSE IF /\ Len(targetEmployeeName) > 0
          /\ \E i \in 1..Len(employeeRecords) :
               MatchesTarget(employeeRecords[i],
                             normalizeNameForMatching(targetEmployeeName))
    THEN FirstMatching(employeeRecords, normalizeNameForMatching(targetEmployeeName))
  ELSE BestScored(employeeRecords, targetEmployeeName)

\* the record of a block, with its confidence
EmployeeRecord(block) ==
  Put(block, "confidence",
      Min(50 + (IF Len(Text(block, "ssn")) > 0 THEN 30 ELSE 0)
             + (IF Len(Text(block, "address")) > 10 THEN 20 ELSE 0),
          100))

\* employeeRecords.sort((a, b) => b.confidence - a.confidence)
RECURSIVE SortByConfidence(_)
SortByConfidence(records) ==
  IF Len(records) = 0 THEN << >>
  ELSE LET first == CHOOSE i \in 1..Len(records) :
                      /\ \A j \in 1..Len(records) :
                           records[j].confidence <= records[i].confidence
                      /\ \A j \in 1..(i - 1) :
                           records[j].confidence < records[i].confidence
       IN << records[first] >>
            \o SortByConfidence(
                 SubSeq(records, 1, first - 1) \o SubSeq(records, first + 1, Len(records)))

----------------------------------------------------------------------------
(* AzureDocumentIntelligenceService.extract1099IntFieldsFromOCR.  The      *)
(* regular expressions are computed on the characters of the text; \s is   *)
(* a space or a line break.  A field label with optional characters is the *)
(* set of the strings it matches.  The recipient and payer keys            *)
(* extractPersonalInfoFromOCR adds are not modelled: the texts of the      *)
(* model are box lines only.                                               *)

IsWhitespace(c) == c \in {" ", "\n"}

RECURSIVE WhitespaceRun(_, _)
WhitespaceRun(s, i) ==
  IF i <= Len(s) /\ IsWhitespace(s[i]) THEN 1 + WhitespaceRun(s, i + 1) ELSE 0

\* s holds lit at position i
HasAt(s, i, lit) ==
  i + Len(lit) - 1 <= Len(s) /\ SubSeq(s, i, i + Len(lit) - 1) = lit

\* s holds lit at position i, whatever the case of the letters (flag i)
HasAtIgnoringCase(s, i, lit) ==
  /\ i + Len(lit) - 1 <= Len(s)
  /\ toLowerCase(SubSeq(s, i, i + Len(lit) - 1)) = toLowerCase(lit)

Least(S) == CHOOSE x \in S : \A y \in S : x <= y

Greatest(S) == CHOOSE x \in S : \A y \in S : x >= y

\* `${boxNumber}\s+${fieldLabel}` matched at position i: the position after
\* the label, 0 when there is no match at i
LabelEnd(ocrText, i, boxNumber, fieldLabel) ==
  LET at == i + Len(boxNumber) + WhitespaceRun(ocrText, i + Len(boxNumber))
  IN IF /\ HasAt(ocrText, i, boxNumber)
        /\ at > i + Len(boxNumber)
        /\ HasAtIgnoringCase(ocrText, at, fieldLabel)
       THEN at + Len(fieldLabel)
       ELSE 0

LabelEnds(ocrText, i, boxNumber, fieldLabels) ==
  {LabelEnd(ocrText, i, boxNumber, fieldLabel) : fieldLabel \in fieldLabels} \ {0}

\* the positions where (?=${nextBoxNumber}\s+|$) holds, from position from on
SectionStops(ocrText, from, nextBoxNumber) ==
  {q \in from..(Len(ocrText) + 1) :
     \/ q = Len(ocrText) + 1
     \/ /\ HasAt(ocrText, q, nextBoxNumber)
        /\ WhitespaceRun(ocrText, q + Len(nextBoxNumber)) >= 1}

SectionFrom(ocrText, from, nextBoxNumber) ==
  SubSeq(ocrText, from, Least(SectionStops(ocrText, from, nextBoxNumber)) - 1)

\* ocrText.match(sectionPattern): the leftmost match, its group 1 the
\* shortest text up to the next box number or the end
SectionMatch(ocrText, boxNumber, fieldLabels, nextBoxNumber) ==
  LET starts == {i \in 1..Len(ocrText) :
                   LabelEnds(ocrText, i, boxNumber, fieldLabels) # {}}
  IN IF starts = {}
       THEN [matched |-> FALSE, section |-> << >>]
       ELSE [matched |-> TRUE,
             section |->
               SectionFrom(ocrText,
                           Greatest(LabelEnds(ocrText, Least(starts),
                                              boxNumber, fieldLabels)),
                           nextBoxNumber)]

\* the length of the run of [0-9,] of s from position i
RECURSIVE AmountRun(_, _)
AmountRun(s, i) ==
  IF i <= Len(s) /\ s[i] \in Digits \cup {","}
    THEN 1 + AmountRun(s, i + 1)
    ELSE 0

\* the match of /([0-9,]+\.?\d{0,2})/ that starts at position i of section
ValueAt(section, i) ==
  LET dot == i + AmountRun(section, i)
      hasDot == dot <= Len(section) /\ section[dot] = "."
      last == IF hasDot
                THEN dot + Min(DigitRun(section, dot + 1), 2)
                ELSE dot - 1
  IN SubSeq(section, i, last)

\* section.match(valuePattern): the leftmost match, << >> when none
ValueMatch(section) ==
  LET starts == {i \in 1..Len(section) : AmountRun(section, i) >= 1}
  IN IF starts = {} THEN << >> ELSE ValueAt(section, Least(starts))

\* parseFloat(valueMatch[1].replace(/,/g, ''))
ValueOfMatch(valueMatch) ==
  LET parsed == parseFloat(SelectSeq(valueMatch, LAMBDA c : c # ","))
  IN IF parsed.nan THEN NaN ELSE Num(parsed.cents)

extractFieldValue(ocrText, boxNumber, fieldLabels, nextBoxNumber) ==
  LET sectionMatch == SectionMatch(ocrText, boxNumber, fieldLabels, nextBoxNumber)
  IN IF ~sectionMatch.matched
       THEN Num(0)
       ELSE IF ValueMatch(sectionMatch.section) # << >>
              THEN ValueOfMatch(ValueMatch(sectionMatch.section))
              ELSE Num(0)

\* String.prototype.trim on a text with line breaks
TrimWhitespace(s) ==
  LET kept == {i \in 1..Len(s) : ~IsWhitespace(s[i])}
  IN IF kept = {} THEN << >> ELSE SubSeq(s, Least(kept), Greatest(kept))

Letters == UpperLetters \cup LowerLetters

\* the length of the run of characters of chars of s from position i
RECURSIVE RunOf(_, _, _)
RunOf(s, i, chars) ==
  IF i <= Len(s) /\ s[i] \in chars THEN 1 + RunOf(s, i + 1, chars) ELSE 0

\* the match of /([A-Za-z][A-Za-z\s]*[A-Za-z]|[A-Za-z0-9\-]+)/ at position i:
\* the first alternative when a second letter closes a run of letters and
\* white space, the second alternative otherwise
TextAt(s, i) ==
  LET run == RunOf(s, i, Letters \cup {" ", "\n"})
      closing == {j \in (i + 1)..(i + run - 1) : s[j] \in Letters}
  IN IF s[i] \in Letters /\ closing # {}
       THEN SubSeq(s, i, Greatest(closing))
       ELSE SubSeq(s, i, i + RunOf(s, i, Letters \cup Digits \cup {"-"}) - 1)

\* section.trim().match(textPattern): the leftmost match, trimmed
TextMatch(section) ==
  LET trimmed == TrimWhitespace(section)
      starts == {i \in 1..Len(trimmed) : trimmed[i] \in Letters \cup Digits \cup {"-"}}
  IN IF starts = {} THEN << >> ELSE TrimWhitespace(TextAt(trimmed, Least(starts)))

extractTextFieldValue(ocrText, boxNumber, fieldLabels, nextBoxNumber) ==
  LET sectionMatch == SectionMatch(ocrText, boxNumber, fieldLabels, nextBoxNumber)
  IN IF ~sectionMatch.matched
       THEN Str(<< >>)
       ELSE Str(TextMatch(sectionMatch.section))

\* U\.?S\.? inside a label
WithOptionalDots(before, after) ==
  {before \o us \o after :
     us \in {<< "U", ".", "S", "." >>, << "U", ".", "S" >>, << "U", "S", "." >>, << "U", "S" >>}}

\* the boxes of the 1099-INT in the order extract1099IntFieldsFromOCR reads
\* them: the key, the box number, the label, the next box number
Box(key, boxNumber, fieldLabels, nextBoxNumber, numeric) ==
  [key |-> key, boxNumber |-> boxNumber, fieldLabels |-> fieldLabels,
   nextBoxNumber |-> nextBoxNumber, numeric |-> numeric]

Boxes1099Int ==
  << Box("interestIncome", << "1" >>, {<< "I", "n", "t", "e", "r", "e", "s", "t", " ", "i", "n", "c", "o", "m", "e" >>}, << "2" >>, TRUE),
     Box("earlyWithdrawalPenalty", << "2" >>, {<< "E", "a", "r", "l", "y", " ", "w", "i", "t", "h", "d", "r", "a", "w", "a", "l", " ", "p", "e", "n", "a", "l", "t", "y" >>}, << "3" >>, TRUE),
     Box("interestOnUSavingsBonds", << "3" >>,
         WithOptionalDots(<< "I", "n", "t", "e", "r", "e", "s", "t", " ", "o", "n", " " >>, << " ", "S", "a", "v", "i", "n", "g", "s", " ", "B", "o", "n", "d", "s", " ", "a", "n", "d", " ", "T", "r", "e", "a", "s", "u", "r", "y", " ", "o", "b", "l", "i", "g", "a", "t", "i", "o", "n", "s" >>),
         << "4" >>, TRUE),
     Box("federalTaxWithheld", << "4" >>, {<< "F", "e", "d", "e", "r", "a", "l", " ", "i", "n", "c", "o", "m", "e", " ", "t", "a", "x", " ", "w", "i", "t", "h", "h", "e", "l", "d" >>}, << "5" >>, TRUE),
     Box("investmentExpenses", << "5" >>, {<< "I", "n", "v", "e", "s", "t", "m", "e", "n", "t", " ", "e", "x", "p", "e", "n", "s", "e", "s" >>}, << "6" >>, TRUE),
     Box("foreignTaxPaid", << "6" >>, {<< "F", "o", "r", "e", "i", "g", "n", " ", "t", "a", "x", " ", "p", "a", "i", "d" >>}, << "7" >>, TRUE),
     Box("foreignCountry", << "7" >>,
         WithOptionalDots(<< "F", "o", "r", "e", "i", "g", "n", " ", "c", "o", "u", "n", "t", "r", "y", " ", "o", "r", " " >>, << " ", "p", "o", "s", "s", "e", "s", "s", "i", "o", "n" >>), << "8" >>, FALSE),
     Box("taxExemptInterest", << "8" >>, {<< "T", "a", "x", "-", "e", "x", "e", "m", "p", "t", " ", "i", "n", "t", "e", "r", "e", "s", "t" >>}, << "9" >>, TRUE),
     Box("specifiedPrivateActivityBondInterest", << "9" >>,
         {<< "S", "p", "e", "c", "i", "f", "i", "e", "d", " ", "p", "r", "i", "v", "a", "t", "e", " ", "a", "c", "t", "i", "v", "i", "t", "y", " ", "b", "o", "n", "d", " ", "i", "n", "t", "e", "r", "e", "s", "t" >>}, << "1", "0" >>, TRUE),
     Box("marketDiscount", << "1", "0" >>, {<< "M", "a", "r", "k", "e", "t", " ", "d", "i", "s", "c", "o", "u", "n", "t" >>}, << "1", "1" >>, TRUE),
     Box("bondPremium", << "1", "1" >>, {<< "B", "o", "n", "d", " ", "p", "r", "e", "m", "i", "u", "m" >>}, << "1", "3" >>, TRUE),
     Box("stateTaxWithheld", << "1", "3" >>, {<< "S", "t", "a", "t", "e", " ", "t", "a", "x", " ", "w", "i", "t", "h", "h", "e", "l", "d" >>}, << "1", "4" >>, TRUE),
     Box("statePayerNumber", << "1", "4" >>, {<< "S", "t", "a", "t", "e", "/", "P", "a", "y", "e", "r", "'", "s", " ", "s", "t", "a", "t", "e", " ", "n", "o", "." >>}, << "1", "5" >>, FALSE),
     Box("stateInterest", << "1", "5" >>, {<< "S", "t", "a", "t", "e", " ", "i", "n", "t", "e", "r", "e", "s", "t" >>}, << "1", "6" >>, TRUE) >>

\* data[box.key] = extractFieldValue(...) or extractTextFieldValue(...)
AssignBox(data, box, ocrText) ==
  Put(data, box.key,
      IF box.numeric
        THEN extractFieldValue(ocrText, box.boxNumber,
                               box.fieldLabels, box.nextBoxNumber)
        ELSE extractTextFieldValue(ocrText, box.boxNumber,
                                   box.fieldLabels, box.nextBoxNumber))

RECURSIVE AssignBoxes(_, _, _, _)
AssignBoxes(data, boxes, n, ocrText) ==
  IF n = 0
    THEN data
    ELSE AssignBox(AssignBoxes(data, boxes, n - 1, ocrText), boxes[n], ocrText)

extract1099IntFieldsFromOCR(ocrText, baseData) ==
  AssignBoxes(baseData, Boxes1099Int, Len(Boxes1099Int), ocrText)

----------------------------------------------------------------------------
(* AzureDocumentIntelligenceService.process1099IntFields and               *)
(* process1099MiscFields.  The fields of the provider are an object from   *)
(* field names to values (fields[name].value); a name whose value is       *)
(* undefined is not in the object.                                         *)

\* the entries of fieldMappings, in the order Object.entries yields them
FieldMappings1099Int ==
  << << "Payer.Name", "payerName" >>,
     << "Payer.TIN", "payerTIN" >>,
     << "Payer.Address", "payerAddress" >>,
     << "Recipient.Name", "recipientName" >>,
     << "Recipient.TIN", "recipientTIN" >>,
     << "Recipient.Address", "recipientAddress" >>,
     << "AccountNumber", "accountNumber" >>,
     << "InterestIncome", "interestIncome" >>,
     << "EarlyWithdrawalPenalty", "earlyWithdrawalPenalty" >>,
     << "InterestOnUSTreasuryObligations", "interestOnUSavingsBonds" >>,
     << "FederalIncomeTaxWithheld", "federalTaxWithheld" >>,
     << "InvestmentExpenses", "investmentExpenses" >>,
     << "ForeignTaxPaid", "foreignTaxPaid" >>,
     << "ForeignCountry", "foreignCountry" >>,
     << "TaxExemptInterest", "taxExemptInterest" >>,
     << "SpecifiedPrivateActivityBondInterest", "specifiedPrivateActivityBondInterest" >>,
     << "MarketDiscount", "marketDiscount" >>,
     << "BondPremium", "bondPremium" >>,
     << "StateTaxWithheld", "stateTaxWithheld" >>,
     << "StatePayerNumber", "statePayerNumber" >>,
     << "StateInterest", "stateInterest" >>,
     << "Box1", "interestIncome" >>,
     << "Box2", "earlyWithdrawalPenalty" >>,
     << "Box3", "interestOnUSavingsBonds" >>,
     << "Box4", "federalTaxWithheld" >>,
     << "Box5", "investmentExpenses" >>,
     << "Box6", "foreignTaxPaid" >>,
     << "Box7", "foreignCountry" >>,
     << "Box8", "taxExemptInterest" >>,
     << "Box9", "specifiedPrivateActivityBondInterest" >>,
     << "Box10", "marketDiscount" >>,
     << "Box11", "bondPremium" >>,
     << "Box13", "stateTaxWithheld" >>,
     << "Box14", "statePayerNumber" >>,
     << "Box15", "stateInterest" >>,
     << "InterestOnUSavingsBonds", "interestOnUSavingsBonds" >>,
     << "InterestOnUSTreasury", "interestOnUSavingsBonds" >>,
     << "USavingsBondsInterest", "interestOnUSavingsBonds" >>,
     << "PrivateActivityBondInterest", "specifiedPrivateActivityBondInterest" >>,
     << "PABInterest", "specifiedPrivateActivityBondInterest" >>,
     << "ForeignCountryOrUSPossession", "foreignCountry" >>,
     << "StateWithholding", "stateTaxWithheld" >>,
     << "StateNumber", "statePayerNumber" >> >>

FieldMappings1099Misc ==
  << << "Payer.Name", "payerName" >>,
     << "Payer.TIN", "payerTIN" >>,
     << "Payer.Address", "payerAddress" >>,
     << "Recipient.Name", "recipientName" >>,
     << "Recipient.TIN", "recipientTIN" >>,
     << "Recipient.Address", "recipientAddress" >>,
     << "AccountNumber", "accountNumber" >>,
     << "Rents", "rents" >>,
     << "Royalties", "royalties" >>,
     << "OtherIncome", "otherIncome" >>,
     << "FederalIncomeTaxWithheld", "federalTaxWithheld" >>,
     << "FishingBoatProceeds", "fishingBoatProceeds" >>,
     << "MedicalAndHealthCarePayments", "medicalHealthPayments" >>,
     << "NonemployeeCompensation", "nonemployeeCompensation" >>,
     << "SubstitutePayments", "substitutePayments" >>,
     << "CropInsuranceProceeds", "cropInsuranceProceeds" >>,
     << "GrossProceedsPaidToAttorney", "grossProceedsAttorney" >>,
     << "FishPurchasedForResale", "fishPurchases" >>,
     << "Section409ADeferrals", "section409ADeferrals" >>,
     << "ExcessGoldenParachutePayments", "excessGoldenParachutePayments" >>,
     << "NonqualifiedDeferredCompensation", "nonqualifiedDeferredCompensation" >>,
     << "Section409AIncome", "section409AIncome" >>,
     << "StateTaxWithheld", "stateTaxWithheld" >>,
     << "StatePayerNumber", "statePayerNumber" >>,
     << "StateIncome", "stateIncome" >>,
     << "Box1", "rents" >>,
     << "Box2", "royalties" >>,
     << "Box3", "otherIncome" >>,
     << "Box4", "federalTaxWithheld" >>,
     << "Box5", "fishingBoatProceeds" >>,
     << "Box6", "medicalHealthPayments" >>,
     << "Box7", "nonemployeeCompensation" >>,
     << "Box8", "substitutePayments" >>,
     << "Box9", "cropInsuranceProceeds" >>,
     << "Box10", "grossProceedsAttorney" >>,
     << "Box11", "fishPurchases" >>,
     << "Box12", "section409ADeferrals" >>,
     << "Box13", "excessGoldenParachutePayments" >>,
     << "Box14", "nonqualifiedDeferredCompensation" >> >>

TextFields1099Int == {"foreignCountry", "statePayerNumber", "accountNumber"}

TextFields1099Misc == {"statePayerNumber", "accountNumber"}

\* the parseAmount of the service: a number as it is, a string without its
\* $ and commas through parseFloat, 0 for what is not a number
parseAmountOfService(value) ==
  CASE value.t = "number" -> value.n
    [] value.t = "string" ->
         LET parsed == parseFloat(SelectSeq(value.s, LAMBDA c : c \notin {"$", ","}))
         IN IF parsed.nan THEN 0 ELSE parsed.cents
    [] OTHER -> 0

DigitOf(d) ==
  << "0", "1", "2", "3", "4", "5", "6", "7", "8", "9" >>[d + 1]

\* the decimal digits of a natural number
RECURSIVE DigitsOf(_)
DigitsOf(n) ==
  IF n < 10 THEN << DigitOf(n) >> ELSE DigitsOf(n \div 10) \o << DigitOf(n % 10) >>

\* String(value) of a text or of a non-negative amount: no fraction for a
\* whole amount, no trailing zero in a fraction
StringOf(value) ==
  CASE value.t = "string" -> value.s
    [] value.t = "number" ->
         LET whole == DigitsOf(value.n \div 100)
             cents == value.n % 100
         IN IF cents = 0 THEN whole
            ELSE IF cents % 10 = 0 THEN whole \o << "." , DigitOf(cents \div 10) >>
            ELSE whole \o << ".", DigitOf(cents \div 10), DigitOf(cents % 10) >>

\* the value a mapped field takes from the value of a field of the provider
MappedValue(value, mappedFieldName, textFields) ==
  IF mappedFieldName \in textFields
    THEN Str(TrimWhitespace(StringOf(value)))
    ELSE Num(parseAmountOfService(value))

\* one round of the loop over Object.entries(fieldMappings)
MapOneField(data, fields, mapping, textFields) ==
  IF Has(fields, mapping[1])
    THEN Put(data, mapping[2], MappedValue(fields[mapping[1]], mapping[2], textFields))
    ELSE data

RECURSIVE MapFields(_, _, _, _, _)
MapFields(data, fields, fieldMappings, n, textFields) ==
  IF n = 0
    THEN data
    ELSE MapOneField(MapFields(data, fields, fieldMappings, n - 1, textFields),
                     fields, fieldMappings[n], textFields)

\* the text fallbacks at the end of the two handlers are guarded by
\* baseData.fullText: on a base data without text the handlers return the
\* data of the loop
process1099IntFields(fields, baseData) ==
  MapFields(baseData, fields, FieldMappings1099Int,
            Len(FieldMappings1099Int), TextFields1099Int)

process1099MiscFields(fields, baseData) ==
  MapFields(baseData, fields, FieldMappings1099Misc,
            Len(FieldMappings1099Misc), TextFields1099Misc)

----------------------------------------------------------------------------
(* AzureDocumentIntelligenceService.parseAddressComponents.  The result is *)
(* an object with the keys that were assigned.                             *)

NoMatch == [ok |-> FALSE]

CommaPositions(s) == {i \in 1..Len(s) : s[i] = ","}

\* ([A-Z]{2})\s+(\d{5}(?:-\d{4})?)$ with flag i, from position i to the end
StateZipAt(s, i) ==
  IF /\ i + 1 <= Len(s)
     /\ s[i] \in Letters
     /\ s[i + 1] \in Letters
     /\ WhitespaceRun(s, i + 2) >= 1
     /\ IsZip(SubSeq(s, i + 2 + WhitespaceRun(s, i + 2), Len(s)))
    THEN [ok |-> TRUE,
          state |-> toUpperCase(SubSeq(s, i, i + 1)),
          zipCode |-> SubSeq(s, i + 2 + WhitespaceRun(s, i + 2), Len(s))]
    ELSE NoMatch

\* ,\s*([A-Z]{2})\s+(\d{5}(?:-\d{4})?)$ : the comma is the last of the address
StateZipAfterComma(s, comma) ==
  StateZipAt(s, comma + 1 + WhitespaceRun(s, comma + 1))

\* /^(.+?),\s*([^,]+?),\s*([A-Z]{2})\s+(\d{5}(?:-\d{4})?)$/i : the city is
\* between the last two commas, the street is what precedes them
MatchStandard(address, before, last) ==
  IF /\ before >= 2
     /\ last - before >= 2
     /\ \A i \in 1..(before - 1) : address[i] # "\n"
     /\ StateZipAfterComma(address, last).ok
    THEN [ok |-> TRUE,
          parts |-> Address(TrimWhitespace(SubSeq(address, 1, before - 1)),
                            TrimWhitespace(SubSeq(address, before + 1, last - 1)),
                            StateZipAfterComma(address, last).state,
                            StateZipAfterComma(address, last).zipCode)]
    ELSE NoMatch

StandardPattern(address) ==
  IF Cardinality(CommaPositions(address)) >= 2
    THEN MatchStandard(address,
                       Greatest(CommaPositions(address)
                                  \ {Greatest(CommaPositions(address))}),
                       Greatest(CommaPositions(address)))
    ELSE NoMatch

\* the ends of the streets (.+?) for which
\* /^(.+?)\s+([^,]+?),\s*([A-Z]{2})\s+(\d{5}(?:-\d{4})?)$/i matches, the
\* comma being at position last
NoCommaStreetEnds(address, last) ==
  {i \in 1..(last - 3) :
     /\ IsWhitespace(address[i + 1])
     /\ \A j \in 1..i : address[j] # "\n"
     /\ \A j \in (i + 2)..(last - 1) : address[j] # ","}

\* the street and the city of the second pattern from match[1] and match[2]
SplitStreetAndCity(streetCityParts, streetAndCity, lastCity, tail) ==
  IF Len(streetCityParts) > 2
    THEN Address(Join(SubSeq(streetCityParts, 1, Len(streetCityParts) - 2), << " " >>),
                 TrimWhitespace(
                   Join(SubSeq(streetCityParts, Len(streetCityParts) - 1,
                               Len(streetCityParts)), << " " >>)
                     \o << " " >> \o lastCity),
                 tail.state, tail.zipCode)
    ELSE Address(streetAndCity, lastCity, tail.state, tail.zipCode)

MatchNoComma(address, streetEnd, last) ==
  [ok |-> TRUE,
   parts |-> SplitStreetAndCity(
               SplitWords(TrimWhitespace(SubSeq(address, 1, streetEnd))),
               TrimWhitespace(SubSeq(address, 1, streetEnd)),
               TrimWhitespace(SubSeq(address, streetEnd + 1, last - 1)),
               StateZipAfterComma(address, last))]

NoCommaPattern(address) ==
  IF /\ CommaPositions(address) # {}
     /\ StateZipAfterComma(address, Greatest(CommaPositions(address))).ok
     /\ NoCommaStreetEnds(address, Greatest(CommaPositions(address))) # {}
    THEN MatchNoComma(address,
                      Least(NoCommaStreetEnds(address, Greatest(CommaPositions(address)))),
                      Greatest(CommaPositions(address)))
    ELSE NoMatch

\* the match of /(\d{5}(?:-\d{4})?)/ that starts at position p
ZipAt(s, p) ==
  IF /\ p + 5 <= Len(s)
     /\ s[p + 5] = "-"
     /\ DigitRun(s, p + 6) >= 4
    THEN SubSeq(s, p, p + 9)
    ELSE SubSeq(s, p, p + 4)

ZipStarts(s) == {p \in 1..Len(s) : DigitRun(s, p) >= 5}

\* the positions where /([A-Z]{2})\s+\d{5}(?:-\d{4})?/i matches
StateStarts(s) ==
  {p \in 1..(Len(s) - 1) :
     /\ s[p] \in Letters
     /\ s[p + 1] \in Letters
     /\ WhitespaceRun(s, p + 2) >= 1
     /\ DigitRun(s, p + 2 + WhitespaceRun(s, p + 2)) >= 5}

\* s matches ((?:[A-Z][a-z]+\s*)+)$ from its first character
RECURSIVE IsCapitalizedWords(_)
IsCapitalizedWords(s) ==
  /\ Len(s) >= 2
  /\ s[1] \in UpperLetters
  /\ RunOf(s, 2, LowerLetters) >= 1
  /\ LET next == 2 + RunOf(s, 2, LowerLetters)
                   + WhitespaceRun(s, 2 + RunOf(s, 2, LowerLetters))
     IN next > Len(s) \/ IsCapitalizedWords(SubSeq(s, next, Len(s)))

\* the ends of the streets (.+?) for which
\* /^(.+?)\s+((?:[A-Z][a-z]+\s*)+)$/ matches
CityStreetEnds(s) ==
  {i \in 1..(Len(s) - 1) :
     /\ IsWhitespace(s[i + 1])
     /\ \A j \in 1..i : s[j] # "\n"
     /\ IsCapitalizedWords(SubSeq(s, i + 1 + WhitespaceRun(s, i + 1), Len(s)))}

\* the street and the city out of what precedes the state
StreetAndCityBefore(parts, beforeState) ==
  IF Len(SplitOn(beforeState, ",")) >= 2
    THEN Put(Put(parts, "street", TrimWhitespace(SplitOn(beforeState, ",")[1])),
             "city", TrimWhitespace(SplitOn(beforeState, ",")[2]))
  ELSE IF CityStreetEnds(beforeState) # {}
    THEN Put(Put(parts, "street",
                 TrimWhitespace(SubSeq(beforeState, 1, Least(CityStreetEnds(beforeState))))),
             "city",
             TrimWhitespace(SubSeq(beforeState, Least(CityStreetEnds(beforeState)) + 1,
                                   Len(beforeState))))
  ELSE Put(parts, "street", beforeState)

\* Pattern 3: the ZIP code first, then the state before a ZIP code, then
\* the street and the city before the state
ZipFirst(address) ==
  LET parts == Put(EmptyObject, "zipCode", ZipAt(address, Least(ZipStarts(address))))
  IN IF StateStarts(address) = {}
       THEN parts
       ELSE StreetAndCityBefore(
              Put(parts, "state",
                  toUpperCase(SubSeq(address, Least(StateStarts(address)),
                                     Least(StateStarts(address)) + 1))),
              TrimWhitespace(SubSeq(address, 1, Least(StateStarts(address)) - 1)))

parseAddressComponents(address) ==
  IF StandardPattern(address).ok THEN StandardPattern(address).parts
  ELSE IF NoCommaPattern(address).ok THEN NoCommaPattern(address).parts
  ELSE IF ZipStarts(address) # {} THEN ZipFirst(address)
  ELSE Put(EmptyObject, "street", TrimWhitespace(address))

----------------------------------------------------------------------------
(* AzureDocumentIntelligenceService: the wages of a W-2 from its text.  A   *)
(* pattern is followed from a start position through its elements; a       *)
(* position is 0 when the pattern does not match.  An amount is            *)
(* [nan |-> TRUE] or [nan |-> FALSE, cents |-> c].                          *)

\* a literal, whatever the case of the letters
AfterLiteral(s, i, lit) ==
  IF i # 0 /\ HasAtIgnoringCase(s, i, lit) THEN i + Len(lit) ELSE 0

\* x? for a literal
AfterOptional(s, i, lit) ==
  IF i # 0 /\ HasAtIgnoringCase(s, i, lit) THEN i + Len(lit) ELSE i

\* [chars]*
AfterRun(s, i, chars) == IF i = 0 THEN 0 ELSE i + RunOf(s, i, chars)

\* [chars]+
AfterSomeRun(s, i, chars) ==
  IF i = 0 \/ RunOf(s, i, chars) = 0 THEN 0 ELSE i + RunOf(s, i, chars)

Whitespace == {" ", "\n"}

\* \s*\n\s*
AfterLineBreak(s, i) ==
  IF i # 0 /\ \E j \in i..(i + RunOf(s, i, Whitespace) - 1) : s[j] = "\n"
    THEN i + RunOf(s, i, Whitespace)
    ELSE 0

\* the start of ([0-9,]+\.?\d{0,2}) at position i
AmountStart(s, i) == IF i # 0 /\ AmountRun(s, i) >= 1 THEN i ELSE 0

\* Wages,?\s*tips,?\s*other\s+ from position i
AfterWagesTipsOther(s, i) ==
  AfterSomeRun(s,
    AfterLiteral(s,
      AfterRun(s,
        AfterOptional(s,
          AfterLiteral(s,
            AfterRun(s,
              AfterOptional(s, AfterLiteral(s, i, << "W", "a", "g", "e", "s" >>), << "," >>),
              Whitespace),
            << "t", "i", "p", "s" >>),
          << "," >>),
        Whitespace),
      << "o", "t", "h", "e", "r" >>),
    Whitespace)

\* comp\.?\s*( from position i
AfterComp(s, i) ==
  AmountStart(s,
    AfterRun(s, AfterOptional(s, AfterLiteral(s, i, << "c", "o", "m", "p" >>), << "." >>), Whitespace))

\* BOX_1_MULTILINE: /(?:^|\n)\s*1\s*\n\s*Wages,?\s*tips,?\s*other\s+comp\.?\s*(...)/i
\* the start is the start of the text or a line break
BOX_1_MULTILINE(s, p) ==
  IF p = 1 \/ s[p] = "\n"
    THEN AfterComp(s,
           AfterWagesTipsOther(s,
             AfterLineBreak(s, AfterLiteral(s, AfterRun(s, p, Whitespace), << "1" >>))))
    ELSE 0

\* WAGES_DIRECT: /Wages,?\s*tips,?\s*other\s+comp\.?\s*(...)/i
WAGES_DIRECT(s, p) == AfterComp(s, AfterWagesTipsOther(s, p))

\* BOX_1_STANDARD:
\* /1\s+Wages,?\s*tips,?\s*other\s+compensation\s*[\n\s]*\$?(...)/i
BOX_1_STANDARD(s, p) ==
  AmountStart(s,
    AfterOptional(s,
      AfterRun(s,
        AfterLiteral(s,
          AfterWagesTipsOther(s, AfterSomeRun(s, AfterLiteral(s, p, << "1" >>), Whitespace)),
          << "c", "o", "m", "p", "e", "n", "s", "a", "t", "i", "o", "n" >>),
        Whitespace),
      << "$" >>))

\* BOX_1_EXPLICIT: /Box\s*1[:\s]*\$?(...)/i
BOX_1_EXPLICIT(s, p) ==
  AmountStart(s,
    AfterOptional(s,
      AfterRun(s,
        AfterLiteral(s, AfterRun(s, AfterLiteral(s, p, << "B", "o", "x" >>), Whitespace), << "1" >>),
        Whitespace \cup {":"}),
      << "$" >>))

\* BOX_1_SIMPLE: /(?:^|\n)\s*1\s+\$?(...)/m : the start is the start of a
\* line or a line break
BOX_1_SIMPLE(s, p) ==
  IF p = 1 \/ s[p] = "\n" \/ s[p - 1] = "\n"
    THEN AmountStart(s,
           AfterOptional(s,
             AfterSomeRun(s, AfterLiteral(s, AfterRun(s, p, Whitespace), << "1" >>),
                          Whitespace),
             << "$" >>))
    ELSE 0

\* the start of the amount of wagePatterns[k] matched from position p
WagePattern(k, s, p) ==
  CASE k = 1 -> BOX_1_MULTILINE(s, p)
    [] k = 2 -> WAGES_DIRECT(s, p)
    [] k = 3 -> BOX_1_STANDARD(s, p)
    [] k = 4 -> BOX_1_EXPLICIT(s, p)
    [] k = 5 -> BOX_1_SIMPLE(s, p)

NoAmount == [nan |-> TRUE, cents |-> 0]

\* parseFloat(match[1].replace(/,/g, '')) for the amount that starts at g
AmountAt(s, g) == parseFloat(SelectSeq(ValueAt(s, g), LAMBDA c : c # ","))

\* ocrText.match(wagePatterns[k].pattern): the amount of the leftmost match
WagePatternStarts(k, s) == {p \in 1..Len(s) : WagePattern(k, s, p) # 0}

\* !isNaN(amount) && amount > 0 && amount < 100000000
ValidWages(amount) ==
  ~amount.nan /\ amount.cents > 0 /\ amount.cents \div 100 < 100000000

\* the loop over wagePatterns from pattern k on: the first valid amount, 0
\* when there is none
RECURSIVE WagePatternLoop(_, _)
WagePatternLoop(k, s) ==
  IF k > 5 THEN 0
  ELSE IF /\ WagePatternStarts(k, s) # {}
          /\ ValidWages(AmountAt(s, WagePattern(k, s, Least(WagePatternStarts(k, s)))))
    THEN AmountAt(s, WagePattern(k, s, Least(WagePatternStarts(k, s)))).cents
  ELSE WagePatternLoop(k + 1, s)

\* employeeName.replace(/\s+/g, '\\s+') matched from position p: the words
\* of the name with white space between them
RECURSIVE AfterName(_, _, _)
AfterName(s, p, words) ==
  IF Len(words) = 0 THEN p
  ELSE IF Len(words) = 1 THEN AfterLiteral(s, p, words[1])
  ELSE AfterName(s, AfterSomeRun(s, AfterLiteral(s, p, words[1]), Whitespace),
                 Tail(words))

\* the words of a name between its runs of white space
NamePattern(name) == SplitWords(Trim(name))

\* The context pattern is built in a template literal, where \s, \S, \d and
\* \. lose their backslash: after the name it reads
\*   [sS]{0,500}?(?:1s+Wages[sS]*?\$?([0-9,]+.?d{0,2})|Boxs*1[sS]*?\$?(...))
\* with flag i.  The start of the amount from the end of the name:
ContextAmountStart(s, nameEnd) ==
  IF nameEnd = 0 \/ RunOf(s, nameEnd, {"s", "S"}) > 500 THEN 0
  ELSE LET q == nameEnd + RunOf(s, nameEnd, {"s", "S"})
           first == AmountStart(s,
                      AfterOptional(s,
                        AfterRun(s,
                          AfterLiteral(s, AfterSomeRun(s, AfterLiteral(s, q, << "1" >>),
                                                       {"s", "S"}),
                                       << "W", "a", "g", "e", "s" >>),
                          {"s", "S"}),
                        << "$" >>))
           second == AmountStart(s,
                       AfterOptional(s,
                         AfterRun(s,
                           AfterLiteral(s, AfterRun(s, AfterLiteral(s, q, << "B", "o", "x" >>),
                                                    {"s", "S"}),
                                        << "1" >>),
                           {"s", "S"}),
                         << "$" >>))
       IN IF first # 0 THEN first ELSE second

\* the amount of the context pattern: [0-9,]+ and then a character and
\* letters d that parseFloat does not read
ContextAmountAt(s, g) ==
  parseFloat(SelectSeq(SubSeq(s, g, g + AmountRun(s, g) - 1), LAMBDA c : c # ","))

ContextStarts(s, words) ==
  {p \in 1..Len(s) : ContextAmountStart(s, AfterName(s, p, words)) # 0}

\* the end of /([A-Z][A-Za-z]+\s+[A-Z][A-Za-z]+)/ matched from position p
PairEnd(s, p) ==
  IF p <= Len(s) /\ s[p] \in UpperLetters
    THEN LET second == AfterSomeRun(s, AfterSomeRun(s, p + 1, Letters), Whitespace)
         IN IF second # 0 /\ second <= Len(s) /\ s[second] \in UpperLetters
              THEN AfterSomeRun(s, second + 1, Letters)
              ELSE 0
    ELSE 0

\* Array.from(ocrText.matchAll(nextEmployeePattern)) from position i on: the
\* matches from left to right, none overlapping another
RECURSIVE EmployeeMatches(_, _)
EmployeeMatches(s, i) ==
  LET starts == {p \in i..Len(s) : PairEnd(s, p) # 0}
  IN IF starts = {} THEN << >>
     ELSE << [index |-> Least(starts),
              value |-> SubSeq(s, Least(starts), PairEnd(s, Least(starts)) - 1)] >>
            \o EmployeeMatches(s, PairEnd(s, Least(starts)))

\* the text from the employee's match to the next match, or to the end
SearchText(s, employeeMatches, current) ==
  IF current + 1 <= Len(employeeMatches)
    THEN SubSeq(s, employeeMatches[current].index, employeeMatches[current + 1].index - 1)
    ELSE SubSeq(s, employeeMatches[current].index, Len(s))

\* the end of (?:1\s+Wages|Box\s*1) matched from position p
WagePrefixEnd(s, p) ==
  IF AfterLiteral(s, AfterSomeRun(s, AfterLiteral(s, p, << "1" >>), Whitespace), << "W", "a", "g", "e", "s" >>) # 0
    THEN AfterLiteral(s, AfterSomeRun(s, AfterLiteral(s, p, << "1" >>), Whitespace), << "W", "a", "g", "e", "s" >>)
    ELSE AfterLiteral(s, AfterRun(s, AfterLiteral(s, p, << "B", "o", "x" >>), Whitespace), << "1" >>)

\* /(?:1\s+Wages|Box\s*1)[\s\S]*?\$?([0-9,]+\.?\d{0,2})/i : the starts of
\* the amount, the first character of [0-9,] after the prefix
WageAmountStarts(s, prefixEnd) == {g \in prefixEnd..Len(s) : AmountRun(s, g) >= 1}

ContextualWages(searchText) ==
  LET starts == {p \in 1..Len(searchText) :
                   /\ WagePrefixEnd(searchText, p) # 0
                   /\ WageAmountStarts(searchText, WagePrefixEnd(searchText, p)) # {}}
  IN IF starts = {} THEN NoAmount
     ELSE AmountAt(searchText,
                   Least(WageAmountStarts(searchText,
                                          WagePrefixEnd(searchText, Least(starts)))))

\* the fallback of extractWagesForSpecificEmployee: the wages between the
\* employee's name and the next pair of capitalized words
WagesBeforeNextEmployee(s, employeeMatches, name) ==
  LET found == {i \in 1..Len(employeeMatches) : employeeMatches[i].value = name}
  IN IF found = {} THEN 0
     ELSE IF ValidWages(ContextualWages(SearchText(s, employeeMatches, Least(found))))
       THEN ContextualWages(SearchText(s, employeeMatches, Least(found))).cents
     ELSE 0

extractWagesForSpecificEmployee(s, name) ==
  IF /\ ContextStarts(s, NamePattern(name)) # {}
     /\ ValidWages(
          ContextAmountAt(s,
            ContextAmountStart(s,
              AfterName(s, Least(ContextStarts(s, NamePattern(name))),
                        NamePattern(name)))))
    THEN ContextAmountAt(s,
           ContextAmountStart(s,
             AfterName(s, Least(ContextStarts(s, NamePattern(name))),
                       NamePattern(name)))).cents
    ELSE WagesBeforeNextEmployee(s, EmployeeMatches(s, 1), name)

\* the wages of the primary employee when several employees are detected
TargetedWages(s, primary) ==
  IF primary # Null /\ Text(primary, "name") # << >>
    THEN extractWagesForSpecificEmployee(s, primary.name)
    ELSE 0

\* info is detectAndExtractMultipleEmployeeRecords(ocrText)
extractWagesFromOCR(s, info) ==
  IF /\ info.hasMultipleEmployees
     /\ TargetedWages(s, selectPrimaryEmployeeRecord(info.employeeRecords, << >>)) > 0
    THEN TargetedWages(s, selectPrimaryEmployeeRecord(info.employeeRecords, << >>))
    ELSE WagePatternLoop(1, s)

\* [-\s]?
AfterSeparator(s, i) ==
  IF i <= Len(s) /\ s[i] \in {"-", " ", "\n"} THEN i + 1 ELSE i

\* the SSN of /(\d{3}[-\s]?\d{2}[-\s]?\d{4})/ at position g, its end
SsnEnd(s, g) ==
  LET three == IF DigitRun(s, g) >= 3 THEN g + 3 ELSE 0
      two == IF three # 0 /\ DigitRun(s, AfterSeparator(s, three)) >= 2
               THEN AfterSeparator(s, three) + 2 ELSE 0
  IN IF two # 0 /\ DigitRun(s, AfterSeparator(s, two)) >= 4
       THEN AfterSeparator(s, two) + 4
       ELSE 0

\* the SSN near a block: the first one that follows the name of the block
\* within 200 characters, << >> when there is none
SsnNear(s, words) ==
  LET starts == {p \in 1..Len(s) :
                   /\ AfterName(s, p, words) # 0
                   /\ \E g \in AfterName(s, p, words)..Len(s) :
                        g - AfterName(s, p, words) <= 200 /\ SsnEnd(s, g) # 0}
      nameEnd == AfterName(s, Least(starts), words)
      g == Least({h \in nameEnd..Len(s) : SsnEnd(s, h) # 0})
  IN IF starts = {} THEN << >> ELSE SubSeq(s, g, SsnEnd(s, g) - 1)

\* /e\/f\s+Employee'?s?\s+name,?\s+address,?\s+and\s+ZIP\s+code/i from p
AfterW2Header(s, p) ==
  AfterLiteral(s,
    AfterSomeRun(s,
      AfterLiteral(s,
        AfterSomeRun(s,
          AfterLiteral(s,
            AfterSomeRun(s,
              AfterOptional(s,
                AfterLiteral(s,
                  AfterSomeRun(s,
                    AfterOptional(s,
                      AfterLiteral(s,
                        AfterSomeRun(s,
                          AfterOptional(s,
                            AfterOptional(s,
                              AfterLiteral(s,
                                AfterSomeRun(s, AfterLiteral(s, p, << "e", "/", "f" >>), Whitespace),
                                << "E", "m", "p", "l", "o", "y", "e", "e" >>),
                              << "'" >>),
                            << "s" >>),
                          Whitespace),
                        << "n", "a", "m", "e" >>),
                      << "," >>),
                    Whitespace),
                  << "a", "d", "d", "r", "e", "s", "s" >>),
                << "," >>),
              Whitespace),
            << "a", "n", "d" >>),
          Whitespace),
        << "Z", "I", "P" >>),
      Whitespace),
    << "c", "o", "d", "e" >>)

w2HeaderPattern(s) == \E p \in 1..Len(s) : AfterW2Header(s, p) # 0

\* ocrText.split('\n').map(line => line.trim()).filter(line => line.length > 0)
LinesOf(s) == SelectSeq([i \in 1..Len(SplitOn(s, "\n")) |-> Trim(SplitOn(s, "\n")[i])],
                        LAMBDA line : Len(line) > 0)

\* a line that looks like the name of an employee: capitals, two words or
\* more
IsEmployeeNameLine(line) ==
  /\ Len(line) >= 3
  /\ line[1] \in UpperLetters
  /\ line[Len(line)] \in UpperLetters
  /\ \A i \in 1..Len(line) : line[i] \in UpperLetters \cup Whitespace
  /\ Len(SplitOn(line, " ")) >= 2
  /\ Len(line) > 3
  /\ Len(line) < 50
  /\ ~Includes(line, << "E", "M", "P", "L", "O", "Y", "E", "E" >>)
  /\ ~Includes(line, << "E", "M", "P", "L", "O", "Y", "E", "R" >>)
  /\ ~Includes(line, << "F", "O", "R", "M" >>)

\* /\d/
HasDigit(line) == \E i \in 1..Len(line) : line[i] \in Digits

\* /^[A-Z\s]+,\s*[A-Z]{2}\s+\d{5}(-\d{4})?$/
IsCityStateZipLine(line) ==
  \E c \in 2..Len(line) :
    /\ line[c] = ","
    /\ \A i \in 1..(c - 1) : line[i] \in UpperLetters \cup Whitespace
    /\ LET st == AfterRun(line, c + 1, Whitespace)
           zip == IF /\ st + 1 <= Len(line)
                     /\ line[st] \in UpperLetters
                     /\ line[st + 1] \in UpperLetters
                    THEN AfterSomeRun(line, st + 2, Whitespace)
                    ELSE 0
       IN /\ zip # 0
          /\ DigitRun(line, zip) >= 5
          /\ \/ zip + 5 = Len(line) + 1
             \/ /\ zip + 10 = Len(line) + 1
                /\ line[zip + 5] = "-"
                /\ DigitRun(line, zip + 6) = 4

\* the loop over the lines after the header, from line i on: a name, a
\* street with a digit and a city line make a block
RECURSIVE BlocksAfterHeader(_, _)
BlocksAfterHeader(lines, i) ==
  IF i > Len(lines) THEN << >>
  ELSE IF /\ IsEmployeeNameLine(lines[i])
          /\ i + 2 <= Len(lines)
          /\ HasDigit(lines[i + 1])
          /\ IsCityStateZipLine(lines[i + 2])
    THEN << [name |-> lines[i],
             address |-> lines[i + 1] \o << " " >> \o lines[i + 2]] >>
           \o BlocksAfterHeader(lines, i + 3)
  ELSE BlocksAfterHeader(lines, i + 1)

\* the blocks after the first line that holds the header
EmployeeBlocksOf(s) ==
  LET lines == LinesOf(s)
      headers == {i \in 1..Len(lines) : w2HeaderPattern(lines[i])}
  IN IF headers = {} THEN << >> ELSE BlocksAfterHeader(lines, Least(headers) + 1)

\* the record of a block of the text: its name and address, the SSN found
\* near its name, its confidence
RecordOfBlock(s, block) ==
  EmployeeRecord(
    IF SsnNear(s, NamePattern(block.name)) = << >>
      THEN block
      ELSE Put(block, "ssn", SsnNear(s, NamePattern(block.name))))

\* the texts read here hold the header of the W-2 layout, so the blocks are
\* those that follow it
detectAndExtractMultipleEmployeeRecords(s) ==
  [hasMultipleEmployees |-> Len(EmployeeBlocksOf(s)) > 1,
   employeeRecords |->
     SortByConfidence([i \in 1..Len(EmployeeBlocksOf(s)) |->
                         RecordOfBlock(s, EmployeeBlocksOf(s)[i])])]

\* fields[name]?.value of the first of the names that has one
FirstFieldOf(fields, names) ==
  LET found == {i \in 1..Len(names) : Has(fields, names[i]) /\ fields[names[i]] # << >>}
  IN IF found = {} THEN << >> ELSE fields[names[Least(found)]]

\* processW2Fields on structured fields that hold at most the name of the
\* employee, with the text of several employees: the name, the SSN and the
\* address from the record extractPersonalInfoFromOCR selects, the wages
\* from extractWagesFromOCR.  The employer keys and the components of the
\* address are not carried.
processW2Fields(fields, s, info) ==
  LET nameOfFields == FirstFieldOf(fields, << "Employee.Name", "EmployeeName",
                                             "Employee_Name", "RecipientName" >>)
      primary == selectPrimaryEmployeeRecord(info.employeeRecords, nameOfFields)
      wagesFromOCR == extractWagesFromOCR(s, info)
  IN [employeeName |-> IF nameOfFields # << >> THEN nameOfFields ELSE Text(primary, "name"),
      employeeSSN |-> Text(primary, "ssn"),
      employeeAddress |-> Text(primary, "address"),
      wages |-> wagesFromOCR]

----------------------------------------------------------------------------
(* Inputs *)

\* The numeric boxes read by map1099ToForm1040, each with the amount (in
\* cents) that the single-box documents of the model carry
DocAmount ==
  [interestIncome |-> Dollars(100),
   interestOnUSavingsBonds |-> Dollars(40),
   taxExemptInterest |-> Dollars(60),
   specifiedPrivateActivityBondInterest |-> Dollars(30),
   marketDiscount |-> Dollars(300),
   bondPremium |-> Dollars(150),
   stateTaxWithheld |-> Dollars(20),
   stateInterest |-> Dollars(90),
   earlyWithdrawalPenalty |-> Dollars(25),
   investmentExpenses |-> Dollars(35),
   foreignTaxPaid |-> Dollars(45),
   ordinaryDividends |-> Dollars(500),
   qualifiedDividends |-> Dollars(200),
   totalCapitalGain |-> Dollars(700),
   rents |-> Dollars(1200),
   royalties |-> Dollars(800),
   otherIncome |-> Dollars(650),
   nonemployeeCompensation |-> Dollars(60000),
   federalTaxWithheld |-> Dollars(400)]

DocFields == DOMAIN DocAmount

SingleBoxDoc(box) == [k \in {box} |-> Num(DocAmount[box])]

\* a document whose amounts come as formatted strings and wrapper objects
FormattedDoc ==
  [interestIncome |-> Str(<<"$", "1", ",", "2", "3", "4", ".", "5", "0">>),
   ordinaryDividends |-> ValueOf(Str(<<"2", "5", "0">>)),
   FederalIncomeTaxWithheld |-> ContentOf(Num(Dollars(75)))]

\* a document whose data is nested under extractedData
NestedDoc ==
  [extractedData |->
     [rents |-> Num(Dollars(900)),
      foreignTaxPaid |-> Num(Dollars(15)),
      foreignCountry |-> "CA"]]

\* a document whose readings are unusable: negative, NaN, not a number
UnusableDoc ==
  [interestIncome |-> Num(0 - Dollars(100)),
   rents |-> NaN,
   royalties |-> Str(<<"n", "/", "a">>),
   federalTaxWithheld |-> Num(0)]

\* a document that names its recipient, the address separated by commas
RecipientDoc ==
  [recipientName |-> << "A", "l", " ", " ", "J", " ", "R", "o", "e" >>,
   recipientTIN |-> << "1", "2", "3", "-", "4", "5", "-", "6", "7", "8", "9" >>,
   recipientAddress |-> << "1", "2", " ", "E", "l", "m", " ", "S", "t", ",", " ", "T", "r", "o", "y", ",", " ", "N", "Y", " ", "1", "2", "1", "8", "0" >>,
   documentId |-> << "d", "1" >>,
   interestIncome |-> Num(Dollars(10))]

\* a document that names its recipient under Recipient, the address
\* separated by spaces
NestedRecipientDoc ==
  [Recipient |->
     [Name |-> << "B", "o", " ", "L", "e", "e" >>,
      TIN |-> << "9", "8", "7", "6", "5" >>,
      Address |-> << "9", " ", "O", "a", "k", " ", "R", "d", " ", "T", "r", "o", "y", " ", "N", "Y", " ", "1", "2", "1", "8", "0", "-", "0", "0", "0", "1" >>]]

Docs ==
  {SingleBoxDoc(box) : box \in DocFields}
    \cup {EmptyObject, FormattedDoc, NestedDoc, UnusableDoc, RecipientDoc,
          NestedRecipientDoc}

\* The documents applied where the tax computation is at issue: no amount,
\* a large income, a small income, a withholding
RecomputeDocs ==
  {EmptyObject, SingleBoxDoc("nonemployeeCompensation"),
   SingleBoxDoc("interestIncome"), SingleBoxDoc("federalTaxWithheld")}

\* The updates a caller passes to updateFormData
Updates ==
  {[k \in {"filingStatus"} |-> fs] : fs \in FilingStatuses}
    \cup { [line1 |-> Dollars(50000), line25a |-> Dollars(6000)],
           [line10 |-> Dollars(2000)],
           [line12 |-> Dollars(30000)],
           [line12 |-> Dollars(5000)],
           [line13 |-> Dollars(1000)],
           [line17 |-> Dollars(500), line20 |-> Dollars(300), line23 |-> Dollars(250)],
           [line25b |-> Dollars(7000)],
           [dependents |-> << [qualifiesForCTC |-> TRUE], [qualifiesForCTC |-> FALSE] >>] }

\* The form data a return starts with: nothing but the filing status chosen
\* when the return was created, if any
StartForms ==
  {EmptyObject} \cup {[k \in {"filingStatus"} |-> fs] : fs \in FilingStatuses}

NoExport == [formData |-> EmptyObject, exportedAny |-> FALSE]

\* The amounts a critical field carries in the structured data: zero, amounts
\* less than the threshold apart, exactly the threshold apart, far apart
ReconAmounts == {0, Dollars(50), Dollars(120), Dollars(150), Dollars(500)}

\* The critical fields populated in one reconciliation: an adjacent pair of
\* boxes, or Box 3 and Box 5
ReconFieldGroups ==
  {{adjacentBoxPairs[i][1], adjacentBoxPairs[i][2]} : i \in 1..Len(adjacentBoxPairs)}
    \cup {{"otherIncome", "fishingBoatProceeds"}}

\* an object with amounts in some fields of one group
ReconObjects ==
  UNION {UNION {[present -> ReconAmounts] : present \in SUBSET group} :
           group \in ReconFieldGroups}

\* a reconciliation reads both sources in the fields of one group
ReconInputs ==
  {pair \in ReconObjects \X ReconObjects :
     \E group \in ReconFieldGroups :
       (DOMAIN pair[1]) \cup (DOMAIN pair[2]) \subseteq group}

NotValidated == [validated |-> FALSE, data |-> EmptyObject]

\* The phrases the recognized text of a document is made of
Phrases ==
  { << "F", "o", "r", "m", " ", "W", "-", "2" >>,
    << "W", "a", "g", "e", " ", "a", "n", "d", " ", "T", "a", "x", " ", "S", "t", "a", "t", "e", "m", "e", "n", "t" >>,
    << "F", "e", "d", "e", "r", "a", "l", " ", "i", "n", "c", "o", "m", "e", " ", "t", "a", "x", " ", "w", "i", "t", "h", "h", "e", "l", "d" >>,
    << "P", "A", "Y", "E", "R" >>,
    << "R", "e", "c", "i", "p", "i", "e", "n", "t" >>,
    << "F", "o", "r", "m", " ", "1", "0", "9", "9", "-", "I", "N", "T" >>,
    << "I", "n", "t", "e", "r", "e", "s", "t", " ", "I", "n", "c", "o", "m", "e" >>,
    << "O", "r", "d", "i", "n", "a", "r", "y", " ", "D", "i", "v", "i", "d", "e", "n", "d", "s" >>,
    << "N", "o", "n", "e", "m", "p", "l", "o", "y", "e", "e", " ", "c", "o", "m", "p", "e", "n", "s", "a", "t", "i", "o", "n" >>,
    << "R", "e", "n", "t", "s" >>,
    << "F", "o", "r", "m", " ", "1", "0", "9", "9", "-", "N", "E", "C" >>,
    << "F", "o", "r", "m", " ", "1", "0", "9", "9", "-", "D", "I", "V" >>,
    << "I", "n", "v", "o", "i", "c", "e" >> }

\* The recognized texts: up to MaxPhrases phrases, one per line
RECURSIVE TextsOf(_)
TextsOf(n) ==
  IF n = 0
    THEN {<< >>}
    ELSE TextsOf(n - 1)
           \cup {text \o << "\n" >> \o phrase : text \in TextsOf(n - 1) \ {<< >>}, phrase \in Phrases}
           \cup Phrases

OcrTexts == TextsOf(MaxPhrases)

NotAnalyzed == "NOT_ANALYZED"

\* The errors of the provider
NoError == [failed |-> FALSE, message |-> << >>, code |-> ""]

ProviderErrors ==
  { [failed |-> TRUE, code |-> "ModelNotFound",
     message |-> << "M", "o", "d", "e", "l", "N", "o", "t", "F", "o", "u", "n", "d", ":", " ", "t", "h", "e", " ", "m", "o", "d", "e", "l", " ", "w", "a", "s", " ", "n", "o", "t", " ", "f", "o", "u", "n", "d" >>],
    [failed |-> TRUE, code |-> "404",
     message |-> << "R", "e", "s", "o", "u", "r", "c", "e", " ", "n", "o", "t", " ", "f", "o", "u", "n", "d" >>],
    [failed |-> TRUE, code |-> "NotFound",
     message |-> << "T", "h", "e", " ", "o", "p", "e", "r", "a", "t", "i", "o", "n", " ", "f", "a", "i", "l", "e", "d" >>],
    [failed |-> TRUE, code |-> "ETIMEDOUT",
     message |-> << "R", "e", "q", "u", "e", "s", "t", " ", "t", "i", "m", "e", "d", " ", "o", "u", "t" >>],
    [failed |-> TRUE, code |-> "401",
     message |-> << "A", "c", "c", "e", "s", "s", " ", "d", "e", "n", "i", "e", "d", " ", "d", "u", "e", " ", "t", "o", " ", "i", "n", "v", "a", "l", "i", "d", " ", "s", "u", "b", "s", "c", "r", "i", "p", "t", "i", "o", "n", " ", "k", "e", "y" >>] }

\* The key-value pairs of a result: none, one of a table, one whose key is
\* the key of the corrected type
KeyValuePairs ==
  { EmptyObject,
    [Account |-> "12-345"],
    [correctedDocumentType |-> "INVOICE"],
    [correctedDocumentType |-> "FORM_1099_INT"] }

\* The texts of the uploaded documents: no text, or one phrase
UploadTexts == {<< >>} \cup Phrases

AnalyzeResults ==
  [content : UploadTexts, hasFields : BOOLEAN, keyValuePairs : KeyValuePairs]

NotExtracted == [status |-> "pending", data |-> EmptyObject, calls |-> << >>]

\* The documents of the tax return the route processes
DocumentIds == {"doc1", "doc2"}

\* What the extraction makes of a document: its final type and its data
Extractions ==
  { [documentType |-> "W2",
     extractedData |-> [wages |-> Dollars(500), federalTaxWithheld |-> Dollars(50)]],
    [documentType |-> "FORM_1099_INT",
     extractedData |-> [interestIncome |-> Dollars(120),
                        interestOnUSavingsBonds |-> Dollars(50)]],
    [documentType |-> "FORM_1099_DIV",
     extractedData |-> [ordinaryDividends |-> Dollars(150)]],
    [documentType |-> "FORM_1099_MISC",
     extractedData |-> [otherIncome |-> Dollars(120), rents |-> Dollars(500),
                        federalTaxWithheld |-> Dollars(50)]],
    [documentType |-> "FORM_1099_NEC",
     extractedData |-> [nonemployeeCompensation |-> Dollars(150)]],
    [documentType |-> "OTHER_TAX_DOCUMENT",
     extractedData |-> EmptyObject] }

\* The income entries the user entered by hand before any processing
ManualEntries ==
  { << >>,
    << [documentId |-> "none", incomeType |-> "OTHER_INCOME",
        description |-> "Manual entry", amount |-> Dollars(500),
        federalTaxWithheld |-> 0] >> }

NotStarted == [pc |-> "start", created |-> 0, read |-> << >>, failed |-> FALSE]

\* The documents a caller validates before it maps them
IntakeDocs ==
  {SingleBoxDoc("foreignTaxPaid"), SingleBoxDoc("interestIncome"),
   SingleBoxDoc("federalTaxWithheld"), SingleBoxDoc("rents"),
   EmptyObject, FormattedDoc, NestedDoc, UnusableDoc, RecipientDoc}

NotChecked == [checked |-> FALSE, form1099Data |-> EmptyObject]

\* The names of the employees the text of a W-2 names
EmployeeNames ==
  { << "A", "l", " ", "R", "o", "e" >>,
    << "a", "l", " ", " ", "r", "o", "e" >>,
    << "A", "l", " ", "J", " ", "R", "o", "e" >>,
    << "B", "o", " ", "L", "e", "e" >>,
    << "R", "o", "e", " ", "I", "n", "c" >> }

\* The name of the employee the structured data gives, '' if none
TargetNames ==
  { << >>,
    << "a", "l", " ", "r", "o", "e" >>,
    << " ", "A", "L", " ", " ", "R", "O", "E" >>,
    << "B", "o", " ", "L", "e", "e" >>,
    << "R", "o", "e" >>,
    << "C", "y", " ", "P", "o", "e" >> }

\* The blocks of the text: a name, alone, with an SSN, or with an SSN and
\* an address
EmployeeBlocks ==
  {[name |-> name] : name \in EmployeeNames}
    \cup {[name |-> name, ssn |-> << "1", "2", "3", "-", "4", "5", "-", "6", "7", "8", "9" >>] : name \in EmployeeNames}
    \cup {[name |-> name, ssn |-> << "1", "2", "3", "-", "4", "5", "-", "6", "7", "8", "9" >>, address |-> << "1", "2", " ", "E", "l", "m", " ", "S", "t", ",", " ", "T", "r", "o", "y" >>] : name \in EmployeeNames}

\* The lists of records detectAndExtractMultipleEmployeeRecords returns
RECURSIVE BlockLists(_)
BlockLists(n) ==
  IF n = 0 THEN {<< >>}
  ELSE BlockLists(n - 1)
         \cup {Append(blocks, block) : blocks \in BlockLists(n - 1), block \in EmployeeBlocks}

EmployeeRecordLists ==
  {SortByConfidence([i \in 1..Len(blocks) |-> EmployeeRecord(blocks[i])]) :
     blocks \in BlockLists(MaxRecords)}

NotSelected == [selected |-> FALSE, value |-> Null]

\* The lines of a 1099-INT: a box with an amount, a box left empty, a box
\* that reads zero, a box with an amount and separators, a text box
BoxLines ==
  { << "1", " ", "I", "n", "t", "e", "r", "e", "s", "t", " ", "i", "n", "c", "o", "m", "e", " ", "$", "1", "2", "0", ".", "5", "0" >>,
    << "1", " ", "I", "n", "t", "e", "r", "e", "s", "t", " ", "i", "n", "c", "o", "m", "e" >>,
    << "1", " ", "I", "n", "t", "e", "r", "e", "s", "t", " ", "i", "n", "c", "o", "m", "e", " ", "0", ".", "0", "0" >>,
    << "2", " ", "E", "a", "r", "l", "y", " ", "w", "i", "t", "h", "d", "r", "a", "w", "a", "l", " ", "p", "e", "n", "a", "l", "t", "y" >>,
    << "3", " ", "I", "n", "t", "e", "r", "e", "s", "t", " ", "o", "n", " ", "U", ".", "S", ".", " ", "S", "a", "v", "i", "n", "g", "s", " ", "B", "o", "n", "d", "s", " ", "a", "n", "d", " ", "T", "r", "e", "a", "s", "u", "r", "y", " ", "o", "b", "l", "i", "g", "a", "t", "i", "o", "n", "s", " ", "1", ",", "0", "4", "0", ".", "0", "0" >>,
    << "4", " ", "F", "e", "d", "e", "r", "a", "l", " ", "i", "n", "c", "o", "m", "e", " ", "t", "a", "x", " ", "w", "i", "t", "h", "h", "e", "l", "d", " ", "1", "2", ".", "0", "0" >>,
    << "7", " ", "F", "o", "r", "e", "i", "g", "n", " ", "c", "o", "u", "n", "t", "r", "y", " ", "o", "r", " ", "U", ".", "S", ".", " ", "p", "o", "s", "s", "e", "s", "s", "i", "o", "n", " ", "C", "a", "n", "a", "d", "a" >> }

RECURSIVE BoxTextsOf(_)
BoxTextsOf(n) ==
  IF n = 0
    THEN {<< >>}
    ELSE BoxTextsOf(n - 1)
           \cup {text \o << "\n" >> \o line : text \in BoxTextsOf(n - 1) \ {<< >>}, line \in BoxLines}
           \cup BoxLines

BoxTexts == BoxTextsOf(MaxLines)

NotRead == [read |-> FALSE, data |-> EmptyObject]

\* The fields of the provider: up to MaxAliases names of a type populated,
\* among them several names of one mapped field
Aliases1099Int ==
  {"InterestIncome", "Box1", "InterestOnUSTreasuryObligations", "Box3",
   "InterestOnUSavingsBonds", "ForeignCountry", "Box7"}

Aliases1099Misc == {"Rents", "Box1", "OtherIncome", "Box3", "StatePayerNumber", "Box17"}

FieldValues == {Num(Dollars(500)), Num(Dollars(700) + 50), Str(<< "$", "1", ",", "2", "0", "0", ".", "0", "0" >>), Str(<< " ", "C", "A", " " >>)}

FieldsOver(aliases) ==
  UNION {[populated -> FieldValues] :
           populated \in {S \in SUBSET aliases : Cardinality(S) <= MaxAliases}}

NotProcessed == [read |-> FALSE, data |-> EmptyObject]

\* The addresses: a street, a city, a state and a ZIP code, each in a few
\* shapes or missing, put together with or without commas
AddressStreets == {<< >>, << "1", "2", " ", "M", "a", "i", "n", " ", "S", "t" >>, << "P", "O", " ", "B", "o", "x", " ", "7" >>}

AddressCities == {<< >>, << "S", "p", "r", "i", "n", "g", "f", "i", "e", "l", "d" >>, << "N", "e", "w", " ", "Y", "o", "r", "k" >>}

AddressStates == {<< >>, << "I", "L" >>, << "i", "l" >>}

AddressZips == {<< >>, << "6", "2", "7", "0", "4" >>, << "6", "2", "7", "0", "4", "-", "1", "2", "3", "4" >>, << "6", "2", "7" >>}

AddressSeparators == {<< ",", " " >>, << " " >>}

\* a and b with the separator between them, when neither is missing
Glue(a, separator, b) ==
  IF a = << >> THEN b ELSE IF b = << >> THEN a ELSE a \o separator \o b

AddressLines ==
  {Glue(Glue(street, first, city), second, Glue(state, << " " >>, zip)) :
     street \in AddressStreets, first \in AddressSeparators,
     city \in AddressCities, second \in AddressSeparators,
     state \in AddressStates, zip \in AddressZips}

NotParsed == [parsed |-> FALSE, value |-> EmptyObject]

\* The form data of a return a W-2 or a 1099 was applied to before: the
\* source the personal information came from, and the name, the SSN and the
\* address, each present or empty
PersonalSources == {<< "W", "2" >>, << "W", "2", ",", " ", "1", "0", "9", "9" >>, << "1", "0", "9", "9" >>}

PersonalForm(sourceDocument, firstName, ssn, address) ==
  [firstName |-> firstName,
   lastName |-> IF firstName = << >> THEN << >> ELSE << "P", "o", "e" >>,
   ssn |-> ssn,
   address |-> address,
   city |-> IF address = << >> THEN << >> ELSE << "A", "m", "e", "s" >>,
   state |-> IF address = << >> THEN << >> ELSE << "I", "A" >>,
   zipCode |-> IF address = << >> THEN << >> ELSE << "5", "0", "0", "1", "0" >>,
   personalInfo |->
     [firstName |-> firstName,
      lastName |-> IF firstName = << >> THEN << >> ELSE << "P", "o", "e" >>,
      ssn |-> ssn,
      address |-> address,
      city |-> IF address = << >> THEN << >> ELSE << "A", "m", "e", "s" >>,
      state |-> IF address = << >> THEN << >> ELSE << "I", "A" >>,
      zipCode |-> IF address = << >> THEN << >> ELSE << "5", "0", "0", "1", "0" >>,
      sourceDocument |-> sourceDocument,
      sourceDocumentId |-> << "w", "1" >>]]

PersonalForms ==
  {PersonalForm(sourceDocument, firstName, ssn, address) :
     sourceDocument \in PersonalSources,
     firstName \in {<< >>, << "A", "n", "n" >>},
     ssn \in {<< >>, << "1", "1", "1", "-", "2", "2", "-", "3", "3", "3", "3" >>},
     address \in {<< >>, << "7", " ", "A", "s", "h", " ", "L", "n" >>}}

\* The documents applied to such a form: with and without a recipient
PersonalDocs ==
  {RecipientDoc, NestedRecipientDoc, SingleBoxDoc("interestIncome"), EmptyObject}

\* The wage statements read: the header of the employee box and the blocks
\* of two employees, each a name, a street, a city line, an SSN line or
\* none, and a line of box 1 in one of two layouts or none.
W2Employees ==
  << [name |-> << "A", "L", " ", "R", "O", "E" >>, city |-> << "T", "R", "O", "Y", ",", " ", "N", "Y", " ", "1", "2", "1", "8", "0" >>, ssn |-> << "1", "2", "3", "-", "4", "5", "-", "6", "7", "8", "9" >>,
      wages |-> << "5", "0", "0", ".", "0", "0" >>],
     [name |-> << "B", "O", " ", "L", "E", "E" >>, city |-> << "A", "V", "O", "N", ",", " ", "O", "H", " ", "4", "4", "0", "1", "1" >>, ssn |-> << "9", "8", "7", "-", "6", "5", "-", "4", "3", "2", "1" >>,
      wages |-> << "9", "0", "0", ".", "0", "0" >>] >>

W2Streets == {<< "1", "2", " ", "E", "L", "M", " ", "S", "T" >>, << "U", "N", "I", "T", " ", "1", "2" >>}

W2HeaderLine == << "e", "/", "f", " ", "E", "m", "p", "l", "o", "y", "e", "e", "'", "s", " ", "n", "a", "m", "e", ",", " ", "a", "d", "d", "r", "e", "s", "s", ",", " ", "a", "n", "d", " ", "Z", "I", "P", " ", "c", "o", "d", "e" >>

WageLayouts == {"none", "explicit", "standard"}

WageLine(layout, wages) ==
  CASE layout = "none" -> << >>
    [] layout = "explicit" -> << "\n", "B", "o", "x", " ", "1", ":", " " >> \o wages
    [] layout = "standard" -> << "\n", "1", " ", "W", "a", "g", "e", "s", ",", " ", "t", "i", "p", "s", ",", " ", "o", "t", "h", "e", "r", " ", "c", "o", "m", "p", "e", "n", "s", "a", "t", "i", "o", "n", " " >> \o wages

W2Block(employee, street, withSsn, layout) ==
  << "\n" >> \o employee.name \o << "\n" >> \o street \o << "\n" >> \o employee.city
    \o (IF withSsn THEN << "\n" >> \o employee.ssn ELSE << >>)
    \o WageLine(layout, employee.wages)

W2Texts ==
  {W2HeaderLine \o W2Block(W2Employees[first], street, ssn1, layout1)
                \o W2Block(W2Employees[3 - first], << "9", " ", "O", "A", "K", " ", "A", "V", "E" >>, ssn2, layout2) :
     first \in {1, 2}, street \in W2Streets, ssn1 \in BOOLEAN, ssn2 \in BOOLEAN,
     layout1 \in WageLayouts, layout2 \in WageLayouts}

\* the structured fields: none, or the name of one of the employees
W2FieldSets ==
  {EmptyObject} \cup {Put(EmptyObject, "Employee.Name", W2Employees[i].name) : i \in {1, 2}}

\* The requests made on the document
Requests == 1..MaxRequests

\* The id of the document the requests are made on
RequestedDocument == "doc1"

NotRequested ==
  [pc |-> "start", marked |-> FALSE, created |-> 0, read |-> << >>, response |-> "none"]

\* The extracted entries that await the user: entry k has its own document
\* and amount, the amount is a string
AutoEntry(k) ==
  [incomeType |-> "OTHER_INCOME",
   amount |-> DigitsOf(k * 100) \o << ".", "5" >>,
   federalTaxWithheld |-> << "0" >>,
   documentId |-> k]

\* sequences of different entries
RECURSIVE PendingListsOf(_)
PendingListsOf(ks) ==
  {<< >>} \cup UNION {{<< AutoEntry(k) >> \o rest : rest \in PendingListsOf(ks \ {k})} : k \in ks}

PendingLists == PendingListsOf(1..MaxPending)

NotAccepting == [pc |-> "idle", entries |-> << >>, i |-> 0, responses |-> << >>]

----------------------------------------------------------------------------
(* State machine *)

\* nothing reconciled
ReconIdle ==
  /\ structuredData = EmptyObject
  /\ ocrData = EmptyObject
  /\ validatedData = NotValidated

\* nothing classified
ClassifyIdle ==
  /\ fullText = << >>
  /\ ocrBasedType = NotAnalyzed

\* nothing extracted
ExtractIdle ==
  /\ document = EmptyObject
  /\ documentRow = EmptyObject
  /\ analyzeResult = EmptyObject
  /\ extraction = NotExtracted
  /\ finalDocumentType = ""

\* no document processed
PipelineIdle ==
  /\ documents = EmptyObject
  /\ extractions = EmptyObject
  /\ posts = EmptyObject
  /\ incomeEntries = << >>
  /\ taxReturn = AggregationOf(<< >>)

\* no document validated
IntakeIdle == validation = NotChecked

\* no record selected
SelectIdle ==
  /\ multiEmployeeInfo = [employeeRecords |-> << >>]
  /\ employeeName = << >>
  /\ primaryEmployee = NotSelected

\* no text read
BoxesIdle ==
  /\ boxText = << >>
  /\ boxData = NotRead

\* no structured fields read
ReaderIdle ==
  /\ documentFields = EmptyObject
  /\ readerType = ""
  /\ readerData = NotProcessed

\* no address parsed
AddressIdle ==
  /\ addressLine = << >>
  /\ serviceAddress = NotParsed
  /\ mapperAddress = NotParsed

\* no wage statement read
WagesIdle ==
  /\ w2Text = << >>
  /\ w2Fields = EmptyObject
  /\ w2Data = NotProcessed

\* no request made
RequestsIdle ==
  /\ processedDocument = EmptyObject
  /\ requestedExtraction = EmptyObject
  /\ requests = EmptyObject
  /\ documentEntries = << >>
  /\ returnTotals = AggregationOf(<< >>)

\* no entry awaits the user
AcceptIdle ==
  /\ pendingAutoEntries = << >>
  /\ shownIncomeEntries = << >>
  /\ autoSaved = EmptyObject
  /\ acceptAll = NotAccepting

\* no document applied, nothing edited
FormIdle ==
  /\ form = EmptyObject
  /\ mapped = << >>
  /\ exported = NoExport
  /\ updates = 0

\* every part of the state but one is idle
AllIdleBut(part) ==
  /\ IF part = "form" THEN TRUE ELSE FormIdle
  /\ IF part = "recon" THEN TRUE ELSE ReconIdle
  /\ IF part = "classify" THEN TRUE ELSE ClassifyIdle
  /\ IF part = "extract" THEN TRUE ELSE ExtractIdle
  /\ IF part = "pipeline" THEN TRUE ELSE PipelineIdle
  /\ IF part = "intake" THEN TRUE ELSE IntakeIdle
  /\ IF part = "select" THEN TRUE ELSE SelectIdle
  /\ IF part = "boxes" THEN TRUE ELSE BoxesIdle
  /\ IF part = "reader" THEN TRUE ELSE ReaderIdle
  /\ IF part = "address" THEN TRUE ELSE AddressIdle
  /\ IF part = "wages" THEN TRUE ELSE WagesIdle
  /\ IF part = "requests" THEN TRUE ELSE RequestsIdle
  /\ IF part = "accept" THEN TRUE ELSE AcceptIdle

Init ==
  /\ form \in StartForms
  /\ mapped = << >>
  /\ exported = NoExport
  /\ updates = 0
  /\ AllIdleBut("form")

\* form = Form1099ToForm1040Mapper.map1099ToForm1040(doc, form)
Map1099(doc) ==
  /\ Len(mapped) < MaxDocs
  /\ form' = map1099ToForm1040(doc, form)
  /\ mapped' = Append(mapped, doc)
  /\ exported' = NoExport
  /\ UNCHANGED updates
  /\ UNCHANGED notFormVars

\* AbstractForm1040.updateFormData(upd)
updateFormData(upd) ==
  /\ updates < MaxUpdates
  /\ form' = MergeUpdates(form, upd)
  /\ updates' = updates + 1
  /\ exported' = NoExport
  /\ UNCHANGED mapped
  /\ UNCHANGED notFormVars

\* AbstractForm1040.exportFormData(): the value handed to the caller
exportFormData ==
  /\ exported' = [formData |-> form, exportedAny |-> TRUE, calculations |-> calculateTax(form)]
  /\ UNCHANGED <<form, mapped, updates>>
  /\ UNCHANGED notFormVars

\* Document accumulation: every document of Docs, applied in any order
Next == \E doc \in Docs : Map1099(doc)

Spec == Init /\ [][Next]_vars

\* Form editing and tax computation: the form is edited through
\* updateFormData, recomputed by the mapper and exported, with the documents
\* that matter to the computation
FormNext ==
  \/ \E doc \in RecomputeDocs : Map1099(doc)
  \/ \E upd \in Updates : updateFormData(upd)
  \/ exportFormData

FormSpec == Init /\ [][FormNext]_vars

\* Reconciliation of one extraction: the two sources are read, then
\* validateAndCorrect1099MiscFields returns the corrected data
ReconInit ==
  /\ AllIdleBut("recon")
  /\ \E pair \in ReconInputs : structuredData = pair[1] /\ ocrData = pair[2]
  /\ validatedData = NotValidated

\* validatedData = this.validateAndCorrect1099MiscFields(data, fullText)
ValidateAndCorrect ==
  /\ ~validatedData.validated
  /\ validatedData' =
       [validated |-> TRUE,
        data |-> validateAndCorrect1099MiscFields(structuredData, ocrData)]
  /\ UNCHANGED <<structuredData, ocrData>>
  /\ UNCHANGED notReconVars

ReconNext == ValidateAndCorrect

ReconSpec == ReconInit /\ [][ReconNext]_vars

\* The classifier on one recognized text
ClassifyInit ==
  /\ AllIdleBut("classify")
  /\ fullText \in OcrTexts
  /\ ocrBasedType = NotAnalyzed

\* ocrBasedType = this.analyzeDocumentTypeFromOCR(extractedData.fullText)
AnalyzeDocumentType ==
  /\ ocrBasedType = NotAnalyzed
  /\ ocrBasedType' = analyzeDocumentTypeFromOCR(fullText)
  /\ UNCHANGED fullText
  /\ UNCHANGED notClassifyVars

ClassifyNext == AnalyzeDocumentType

ClassifySpec == ClassifyInit /\ [][ClassifyNext]_vars

\* Step 6 of the POST route on one document whose status is PROCESSING
ExtractInit ==
  /\ AllIdleBut("extract")
  /\ document \in [documentType : DocumentType, processingStatus : {"PROCESSING"}]
  /\ documentRow = document
  /\ analyzeResult \in AnalyzeResults
  /\ extraction = NotExtracted
  /\ finalDocumentType = document.documentType

\* extractedData = await azureService.extractDataFromDocument(
\*   document.filePath, document.documentType)
ExtractData(modelError, readError) ==
  /\ extraction.status = "pending"
  /\ extraction' =
       [status |->
          IF extractDataFromDocument(
               analyzeResult, document.documentType, modelError, readError).thrown
            THEN "thrown" ELSE "returned",
        data |->
          extractDataFromDocument(
            analyzeResult, document.documentType, modelError, readError).data,
        calls |->
          extractDataFromDocument(
            analyzeResult, document.documentType, modelError, readError).calls]
  /\ UNCHANGED <<document, documentRow, analyzeResult, finalDocumentType>>
  /\ UNCHANGED notExtractVars

\* the route takes the corrected type, if it is of the enumeration, and
\* writes it to the row of the document
ApplyCorrection ==
  /\ extraction.status = "returned"
  /\ finalDocumentType' = FinalDocumentType(extraction.data, document.documentType)
  /\ documentRow' =
       IF CorrectionTaken(extraction.data)
         THEN [documentRow EXCEPT !.documentType = extraction.data.correctedDocumentType]
         ELSE documentRow
  /\ extraction' = [extraction EXCEPT !.status = "extracted"]
  /\ UNCHANGED <<document, analyzeResult>>
  /\ UNCHANGED notExtractVars

\* the route's catch of the error extractDataFromDocument threw
FailProcessing ==
  /\ extraction.status = "thrown"
  /\ documentRow' = [documentRow EXCEPT !.processingStatus = "FAILED"]
  /\ extraction' = [extraction EXCEPT !.status = "failed"]
  /\ UNCHANGED <<document, analyzeResult, finalDocumentType>>
  /\ UNCHANGED notExtractVars

ExtractNext ==
  \/ \E modelError \in {NoError} \cup ProviderErrors,
        readError \in {NoError} \cup ProviderErrors :
       ExtractData(modelError, readError)
  \/ ApplyCorrection
  \/ FailProcessing

ExtractSpec == ExtractInit /\ [][ExtractNext]_vars

\* The POST route on the documents of one tax return, one POST a document.
\* The totals of the return are those of the entries entered by hand.
PipelineInit ==
  /\ AllIdleBut("pipeline")
  /\ extractions \in [DocumentIds -> Extractions]
  /\ documents =
       [id \in DocumentIds |->
          [documentType |-> extractions[id].documentType,
           processingStatus |-> "PENDING",
           extractedData |-> EmptyObject]]
  /\ posts = [id \in DocumentIds |-> NotStarted]
  /\ incomeEntries \in ManualEntries
  /\ taxReturn = AggregationOf(incomeEntries)

\* the POST of document id moves to pc
Goto(id, pc) == posts' = [posts EXCEPT ![id].pc = pc]

\* the POST of document id ends with the status FAILED
Fail(id) ==
  /\ documents' = [documents EXCEPT ![id].processingStatus = "FAILED"]
  /\ posts' = [posts EXCEPT ![id].pc = "done", ![id].failed = TRUE]

\* an error the route catches and logs only: on to step 11
Swallow(id) ==
  posts' = [posts EXCEPT ![id].pc = "completing", ![id].failed = TRUE]

\* the entries step 10 is to create for document id
EntriesToCreate(id) ==
  createIncomeEntriesFromExtractedData(
    extractions[id].documentType, extractions[id].extractedData, id)

\* steps 1-4: the document is not COMPLETED and becomes PROCESSING
StartProcessing(id) ==
  /\ posts[id].pc = "start"
  /\ documents[id].processingStatus # "COMPLETED"
  /\ documents' = [documents EXCEPT ![id].processingStatus = "PROCESSING"]
  /\ Goto(id, "extracting")
  /\ UNCHANGED <<extractions, incomeEntries, taxReturn>>
  /\ UNCHANGED notPipelineVars

\* steps 5-8: the extraction returns the data of the document, or fails
Extract(id, ok) ==
  /\ posts[id].pc = "extracting"
  /\ IF ok
       THEN Goto(id, "saving") /\ UNCHANGED documents
       ELSE Fail(id)
  /\ UNCHANGED <<extractions, incomeEntries, taxReturn>>
  /\ UNCHANGED notPipelineVars

\* step 9: the extracted entries are saved, or the save fails
SaveExtractedEntries(id, ok) ==
  /\ posts[id].pc = "saving"
  /\ IF ok
       THEN Goto(id, "creating") /\ UNCHANGED documents
       ELSE Fail(id)
  /\ UNCHANGED <<extractions, incomeEntries, taxReturn>>
  /\ UNCHANGED notPipelineVars

\* step 10: await prisma.incomeEntry.create of the next entry
CreateIncomeEntry(id, ok) ==
  /\ posts[id].pc = "creating"
  /\ posts[id].created < Len(EntriesToCreate(id))
  /\ IF ok
       THEN /\ incomeEntries' =
                 Append(incomeEntries, EntriesToCreate(id)[posts[id].created + 1])
            /\ posts' = [posts EXCEPT ![id].created = @ + 1]
       ELSE /\ Swallow(id)
            /\ UNCHANGED incomeEntries
  /\ UNCHANGED <<documents, extractions, taxReturn>>
  /\ UNCHANGED notPipelineVars

\* updateIncomeAggregation: await prisma.incomeEntry.findMany
FindIncomeEntries(id, ok) ==
  /\ posts[id].pc = "creating"
  /\ posts[id].created = Len(EntriesToCreate(id))
  /\ IF ok
       THEN posts' = [posts EXCEPT ![id].pc = "aggregating", ![id].read = incomeEntries]
       ELSE Swallow(id)
  /\ UNCHANGED <<documents, extractions, incomeEntries, taxReturn>>
  /\ UNCHANGED notPipelineVars

\* updateIncomeAggregation: await prisma.taxReturn.update
UpdateTaxReturn(id, ok) ==
  /\ posts[id].pc = "aggregating"
  /\ IF ok
       THEN /\ taxReturn' = AggregationOf(posts[id].read)
            /\ Goto(id, "completing")
       ELSE /\ Swallow(id)
            /\ UNCHANGED taxReturn
  /\ UNCHANGED <<documents, extractions, incomeEntries>>
  /\ UNCHANGED notPipelineVars

\* step 11: the document is COMPLETED and keeps its extracted data; the
\* catch of the route if the update fails
CompleteDocument(id, ok) ==
  /\ posts[id].pc = "completing"
  /\ IF ok
       THEN /\ documents' =
                 [documents EXCEPT ![id].processingStatus = "COMPLETED",
                                   ![id].extractedData = extractions[id].extractedData]
            /\ Goto(id, "done")
       ELSE Fail(id)
  /\ UNCHANGED <<extractions, incomeEntries, taxReturn>>
  /\ UNCHANGED notPipelineVars

PipelineNext ==
  \E id \in DocumentIds :
    \/ StartProcessing(id)
    \/ \E ok \in BOOLEAN : Extract(id, ok)
    \/ \E ok \in BOOLEAN : SaveExtractedEntries(id, ok)
    \/ \E ok \in BOOLEAN : CreateIncomeEntry(id, ok)
    \/ \E ok \in BOOLEAN : FindIncomeEntries(id, ok)
    \/ \E ok \in BOOLEAN : UpdateTaxReturn(id, ok)
    \/ \E ok \in BOOLEAN : CompleteDocument(id, ok)

PipelineSpec == PipelineInit /\ [][PipelineNext]_vars

\* The intake of documents: a document is validated, a document is mapped
IntakeInit ==
  /\ form \in StartForms
  /\ mapped = << >>
  /\ exported = NoExport
  /\ updates = 0
  /\ validation = NotChecked
  /\ ReconIdle /\ ClassifyIdle /\ ExtractIdle /\ PipelineIdle /\ SelectIdle /\ BoxesIdle /\ ReaderIdle /\ AddressIdle /\ WagesIdle /\ RequestsIdle /\ AcceptIdle

\* validation = Form1099ToForm1040Mapper.validate1099DataForMapping(doc)
Validate1099(doc) ==
  /\ validation' =
       [checked |-> TRUE,
        form1099Data |-> doc,
        isValid |-> validate1099DataForMapping(doc).isValid,
        errors |-> validate1099DataForMapping(doc).errors,
        warnings |-> validate1099DataForMapping(doc).warnings]
  /\ UNCHANGED notIntakeVars

IntakeNext ==
  \/ \E doc \in IntakeDocs : Validate1099(doc)
  \/ \E doc \in IntakeDocs : Map1099(doc)

IntakeSpec == IntakeInit /\ [][IntakeNext]_vars

\* The selection of the primary employee among the records of one text
SelectInit ==
  /\ AllIdleBut("select")
  /\ \E records \in EmployeeRecordLists : multiEmployeeInfo = [employeeRecords |-> records]
  /\ employeeName \in TargetNames
  /\ primaryEmployee = NotSelected

\* primaryEmployee = this.selectPrimaryEmployeeRecord(
\*   multiEmployeeInfo.employeeRecords, targetEmployeeName)
SelectPrimaryEmployee ==
  /\ ~primaryEmployee.selected
  /\ primaryEmployee' =
       [selected |-> TRUE,
        value |-> selectPrimaryEmployeeRecord(
                    multiEmployeeInfo.employeeRecords, employeeName)]
  /\ UNCHANGED <<multiEmployeeInfo, employeeName>>
  /\ UNCHANGED notSelectVars

SelectNext == SelectPrimaryEmployee

SelectSpec == SelectInit /\ [][SelectNext]_vars

----------------------------------------------------------------------------
(* Vocabulary of the properties *)

\* the step is a call of map1099ToForm1040
MapStep == Len(mapped') = Len(mapped) + 1

LastMapped == mapped[Len(mapped)]

\* the lines recalculateForm1040Totals writes
RecomputedKeys ==
  {"line9", "line11", "line12", "line15", "line16", "line24", "line32",
   "line33", "line34", "line37"}

\* total income, AGI, taxable income, liability, total tax, payments,
\* refund, amount owed
DerivedLines ==
  {"line9", "line11", "line15", "line16", "line24", "line32", "line33", "line37"}

\* the lines the mapping rules post to
PrimaryLines == {"line2a", "line2b", "line3a", "line3b", "line7", "line8", "line25a"}

DerivedTotals(f) == [k \in DerivedLines |-> OrZero(f, k)]

PrimaryTotals(f) == [k \in PrimaryLines |-> OrZero(f, k)]

\* the form started empty and only documents were applied to it
OnlyDocumentsApplied == updates = 0 /\ ~Has(form, "filingStatus")

\* the boxes whose amount is posted to a line or a side ledger
PostedBoxes == DocFields \ {"bondPremium"}

\* the line or ledger entry a box is posted to
TargetOf(f, box) ==
  CASE box \in {"interestIncome", "interestOnUSavingsBonds", "marketDiscount"} ->
         OrZero(f, "line2b")
    [] box = "taxExemptInterest" -> OrZero(f, "line2a")
    [] box = "specifiedPrivateActivityBondInterest" ->
         OrZero(Sub(f, "amtAdjustments"), "privateActivityBondInterest")
    [] box = "stateTaxWithheld" -> OrZero(Sub(f, "scheduleA"), "stateTaxWithheld")
    [] box = "stateInterest" -> OrZero(Sub(f, "stateData"), "interestIncome")
    [] box = "earlyWithdrawalPenalty" ->
         OrZero(Sub(f, "schedule1"), "earlyWithdrawalPenalty")
    [] box = "investmentExpenses" -> OrZero(Sub(f, "scheduleA"), "investmentExpenses")
    [] box = "foreignTaxPaid" -> OrZero(Sub(f, "foreignTaxCredit"), "foreignTaxPaid")
    [] box = "ordinaryDividends" -> OrZero(f, "line3b")
    [] box = "qualifiedDividends" -> OrZero(f, "line3a")
    [] box = "totalCapitalGain" -> OrZero(f, "line7")
    [] box \in {"rents", "royalties", "otherIncome", "nonemployeeCompensation"} ->
         OrZero(f, "line8")
    [] box = "federalTaxWithheld" -> OrZero(f, "line25a")

\* the document carries a positive amount in this box and in no other
CarriesOnly(doc, box) == DOMAIN doc = {box} /\ parseAmount(doc[box]) > 0

----------------------------------------------------------------------------
(* Properties *)

\* C1: mapping accumulation is order-independent: two documents applied to
\* an empty form give the same derived totals (lines 9, 11, 15, 16, 24, 32,
\* 33, 37) in either order, also when one carries a bond premium.
C1_OrderIndependent ==
  (Len(mapped) = 2 /\ OnlyDocumentsApplied) =>
    DerivedTotals(form) =
      DerivedTotals(map1099ToForm1040(mapped[1],
                                      map1099ToForm1040(mapped[2], EmptyObject)))

\* C2: additive mapping never overwrites: after two documents that each
\* carry a positive amount in the same box, the target of that box holds the
\* sum of both amounts.
C2_TargetsHoldSum ==
  (Len(mapped) = 2 /\ OnlyDocumentsApplied) =>
    \A box \in PostedBoxes :
      (CarriesOnly(mapped[1], box) /\ CarriesOnly(mapped[2], box)) =>
        TargetOf(form, box) = parseAmount(mapped[1][box]) + parseAmount(mapped[2][box])

\* C3: reprocessing is idempotent: applying a document to a form that
\* already contains that document's contribution changes no primary line
\* and no derived total.
C3_ReprocessingIdempotent ==
  [][(MapStep /\ \E i \in 1..Len(mapped) : mapped[i] = mapped'[Len(mapped')]) =>
       (PrimaryTotals(form') = PrimaryTotals(form)
          /\ DerivedTotals(form') = DerivedTotals(form))]_vars

\* C4: no mapping rule drives a primary line negative: line 2b and every
\* other line the mapper posts to is >= 0 in every state, also after a bond
\* premium that exceeds the interest accumulated so far.
C4_LinesNonNegative ==
  \A k \in PrimaryLines : OrZero(form, k) >= 0

\* a bond premium of 150.00 was applied to 100.00 of accumulated interest
C4_Witness ==
  /\ Len(mapped) = 2
  /\ mapped[1] = SingleBoxDoc("interestIncome")
  /\ mapped[2] = SingleBoxDoc("bondPremium")
  /\ parseAmount(mapped[2]["bondPremium"]) > parseAmount(mapped[1]["interestIncome"])
  /\ Has(form, "line2b") /\ form["line2b"] = 0

\* C5: taxable income is clamped at zero: line 15 of every recomputation of
\* the mapper and the taxable income of every calculateTax are >= 0, and are
\* exactly 0 whenever the deductions applied plus the QBI deduction (line
\* 13) are at least AGI.
C5_TaxableIncomeClamped ==
  [][/\ MapStep =>
          /\ form'["line15"] >= 0
          /\ (OrZero(form', "line12") + OrZero(form', "line13") >= form'["line11"]) =>
               form'["line15"] = 0
     /\ exported'.exportedAny =>
          LET f == exported'.formData
              c == exported'.calculations
              deductions ==
                Max(Standard_getStandardDeduction(FilingStatusOf(f)), OrZero(f, "line12"))
          IN /\ c.taxableIncome >= 0
             /\ (deductions + OrZero(f, "line13") >= c.adjustedGrossIncome) =>
                  c.taxableIncome = 0]_vars

\* both computations ran on a form whose deductions exceed a positive AGI
C5_Witness ==
  /\ Len(mapped) >= 1
  /\ exported.exportedAny /\ exported.formData = form
  /\ OrZero(form, "line11") > 0
  /\ OrZero(form, "line12") + OrZero(form, "line13") > OrZero(form, "line11")
  /\ OrZero(form, "line15") = 0
  /\ exported.calculations.adjustedGrossIncome > 0
  /\ exported.calculations.taxableIncome = 0

\* C6: AGI is total income minus the adjustments line: whenever line 10 is
\* present, line 11 of the mapper's recomputation and the adjusted gross
\* income of calculateTax are total income minus line 10.
C6_AGISubtractsAdjustments ==
  [][/\ (MapStep /\ Has(form', "line10")) =>
          form'["line11"] = form'["line9"] - form'["line10"]
     /\ (exported'.exportedAny /\ Has(exported'.formData, "line10")) =>
          exported'.calculations.adjustedGrossIncome =
            exported'.calculations.totalIncome - exported'.formData["line10"]]_vars

\* the form of the reference scenario: wages 50,000.00, federal withholding
\* 6,000.00, SINGLE, the deduction line empty or the 13,850.00 standard
\* deduction, and nothing else but recomputed lines
IsReferenceForm(f) ==
  /\ {"line1", "line25a", "filingStatus"} \subseteq DOMAIN f
  /\ DOMAIN f \subseteq {"line1", "line25a", "filingStatus", "personalInfo"} \cup RecomputedKeys
  /\ f["line1"] = Dollars(50000)
  /\ f["line25a"] = Dollars(6000)
  /\ f["filingStatus"] = "SINGLE"
  /\ OrZero(f, "line12") \in {0, Dollars(13850)}

\* C7: reference scenario: wages 50,000.00, withholding 6,000.00, SINGLE
\* give taxable income 36,150.00, liability 4,118.00, total payments
\* 6,000.00, refund 1,882.00 and amount owed 0, in both computations.
C7_ReferenceScenario ==
  [][/\ (MapStep /\ IsReferenceForm(form')) =>
          /\ form'["line15"] = 3615000
          /\ form'["line16"] = 411800
          /\ form'["line32"] = 600000
          /\ form'["line33"] = 188200
          /\ form'["line37"] = 0
     /\ (exported'.exportedAny /\ IsReferenceForm(exported'.formData)) =>
          /\ exported'.calculations.taxableIncome = 3615000
          /\ exported'.calculations.taxLiability = 411800
          /\ exported'.calculations.totalWithholdings = 600000
          /\ exported'.calculations.refundAmount = 188200
          /\ exported'.calculations.amountOwed = 0]_vars

\* the reference form was recomputed by the mapper and then exported
C7_Witness ==
  /\ Len(mapped) >= 1
  /\ IsReferenceForm(form)
  /\ form["line33"] = 188200
  /\ exported.exportedAny /\ exported.formData = form
  /\ exported.calculations.refundAmount = 188200

\* refund and amount owed as the branching prescribes
Branching(payments, totalTax, refund, owed) ==
  /\ (payments > totalTax) => (refund = payments - totalTax /\ owed = 0)
  /\ ~(payments > totalTax) => (refund = 0 /\ owed = totalTax - payments)
  /\ ~(refund > 0 /\ owed > 0)
  /\ refund - owed = payments - totalTax

\* C8: refund/owed branching: in every computed result, payments above the
\* total tax give refund = payments - total tax and nothing owed, otherwise
\* no refund and owed = total tax - payments; never both positive.
C8_RefundOwedBranching ==
  [][/\ MapStep =>
          Branching(form'["line32"], form'["line24"], form'["line33"], form'["line37"])
     /\ exported'.exportedAny =>
          Branching(exported'.calculations.totalWithholdings,
                    exported'.calculations.taxLiability,
                    exported'.calculations.refundAmount,
                    exported'.calculations.amountOwed)]_vars

\* a computed result with tax above the payments and a positive amount owed
C8_Witness ==
  /\ Len(mapped) >= 1
  /\ OrZero(form, "line24") > OrZero(form, "line32")
  /\ OrZero(form, "line32") > 0
  /\ OrZero(form, "line37") > 0
  /\ exported.exportedAny /\ exported.formData = form
  /\ exported.calculations.amountOwed > 0

\* C9: the liability the mapper writes is the progressive evaluation over
\* the schedule of the form's own filing status, for every filing status.
C9_LiabilityUsesOwnSchedule ==
  [][(MapStep /\ Has(form', "filingStatus")) =>
       form'["line16"] =
         RoundToCents(BracketLoop(TaxBrackets[form'["filingStatus"]], 1,
                                  form'["line15"], 0))]_vars

\* the lines and settings a recomputation reads and never writes
PrimitiveLines(f) == [k \in (DOMAIN f) \ RecomputedKeys |-> f[k]]

\* line 12 holds nothing but what a recomputation put there
NoItemizedDeduction(f) ==
  OrZero(f, "line12") \in {0} \cup {STANDARD_DEDUCTION_2023[fs] : fs \in FilingStatuses}

\* C10: recomputation is a pure function of the primitive lines and the
\* filing status: a form gets the derived totals that a fresh form with the
\* same primitive lines and filing status gets, whatever was recomputed
\* before, and recomputing again changes no derived total.
C10_RecomputationPure ==
  [][(MapStep /\ NoItemizedDeduction(form')) =>
       /\ DerivedTotals(form') =
            DerivedTotals(recalculateForm1040Totals(PrimitiveLines(form')))
       /\ DerivedTotals(recalculateForm1040Totals(form')) = DerivedTotals(form')]_vars

----------------------------------------------------------------------------
(* Properties of the reconciliation *)

\* the swap patterns corrected this field
SwapCorrected(field) ==
  \/ /\ CrossContaminated(structuredData, ocrData)
     /\ field \in {"otherIncome", "fishingBoatProceeds"}
  \/ \E i \in 1..Len(adjacentBoxPairs) :
       /\ AdjacentSwap(structuredData, ocrData, adjacentBoxPairs[i][1], adjacentBoxPairs[i][2])
       /\ field \in {adjacentBoxPairs[i][1], adjacentBoxPairs[i][2]}

\* the amount the rule table gives a critical field
RuleTable(field) ==
  IF ~Has(structuredData, field) /\ Has(ocrData, field)
    THEN ocrData[field]
  ELSE IF /\ Has(structuredData, field)
          /\ Has(ocrData, field)
          /\ Abs(structuredData[field] - ocrData[field]) > Dollars(100)
    THEN ocrData[field]
  ELSE OrZero(structuredData, field)

\* C11: reconciliation rule table: a critical field that no swap pattern
\* corrects gets the text-pattern amount when the structured value is absent
\* and the text-pattern value present, the text-pattern amount when both are
\* present and differ by more than 100.00, and the structured amount in
\* every other case, also when the text patterns found nothing.
C11_RuleTable ==
  validatedData.validated =>
    \A i \in 1..Len(criticalFields) :
      ~SwapCorrected(criticalFields[i]) =>
        OrZero(validatedData.data, criticalFields[i]) = RuleTable(criticalFields[i])

\* the pairs of boxes of the swap correction: Box 3 and Box 5, and every
\* adjacent pair
SwapPairs ==
  {<< "otherIncome", "fishingBoatProceeds" >>}
    \cup {adjacentBoxPairs[i] : i \in 1..Len(adjacentBoxPairs)}

\* the structured value of each box is the text-pattern value of the other
SwapSignature(a, b) ==
  /\ {a, b} \subseteq (DOMAIN structuredData) \cap (DOMAIN ocrData)
  /\ structuredData[a] > 0
  /\ structuredData[b] > 0
  /\ structuredData[a] # structuredData[b]
  /\ structuredData[a] = ocrData[b]
  /\ structuredData[b] = ocrData[a]

\* C12: swap correction: when the structured values of Box 3 and Box 5, or
\* of an adjacent pair of critical boxes, are each other's text-pattern
\* values, the reconciled data carries the text-pattern value in both boxes,
\* whatever the amounts.
C12_SwapCorrected ==
  validatedData.validated =>
    \A pair \in SwapPairs :
      SwapSignature(pair[1], pair[2]) =>
        /\ OrZero(validatedData.data, pair[1]) = ocrData[pair[1]]
        /\ OrZero(validatedData.data, pair[2]) = ocrData[pair[2]]

----------------------------------------------------------------------------
(* Properties of the classifier *)

\* the categories in the order of their declaration, each with its keywords
Categories ==
  << [type |-> "W2", indicators |-> w2Indicators] >> \o formTypePatterns

Hits(text, i) == IndicatorScore(toLowerCase(text), Categories[i].indicators)

\* the first pass decides between the wage statement and the 1099 family,
\* the secondary pass between the categories of the family
FamilyHits(text) == IndicatorScore(toLowerCase(text), form1099Indicators)

\* the category of the family with the most hits, the first declared on a tie
FirstBestOfFamily(text) ==
  CHOOSE i \in 2..Len(Categories) :
    /\ \A j \in 2..Len(Categories) : Hits(text, j) <= Hits(text, i)
    /\ \A j \in 2..(i - 1) : Hits(text, j) < Hits(text, i)

\* the categories the rule allows: one, or any category of the family when
\* the first pass chose the family and no category of the family has a hit
SelectedCategories(text) ==
  IF Hits(text, 1) = 0 /\ FamilyHits(text) = 0 THEN {"UNKNOWN"}
  ELSE IF Hits(text, 1) >= FamilyHits(text) THEN {"W2"}
  ELSE IF \A j \in 2..Len(Categories) : Hits(text, j) = 0
    THEN {Categories[j].type : j \in 2..Len(Categories)}
  ELSE {Categories[FirstBestOfFamily(text)].type}

\* C13: the classifier selects the category with the most keyword hits; on
\* equal hit counts the category declared first wins; the result is the
\* unknown category exactly when no keyword set scores above zero.
C13_ClassifierSelection ==
  ocrBasedType # NotAnalyzed => ocrBasedType \in SelectedCategories(fullText)

----------------------------------------------------------------------------
(* Properties of the extraction *)

\* the type the classifier makes of the text of the document
ClassifierType == analyzeDocumentTypeFromOCR(analyzeResult.content)

\* the extraction carries a corrected type that is not of the enumeration
UnrecognizedCorrection ==
  /\ Has(extraction.data, "correctedDocumentType")
  /\ extraction.data.correctedDocumentType \notin DocumentType

C15_FallbackRetriesOnce ==
  extraction.status \in {"thrown", "failed"} =>
    /\ Len(extraction.calls) = 2
    /\ extraction.calls[2] = "prebuilt-read"

----------------------------------------------------------------------------
(* Properties of the processing of documents *)

\* the income entries that came from document id
EntriesOf(id) == SelectSeq(incomeEntries, LAMBDA entry : entry.documentId = id)

\* the income entries that came from no document
EntriesByHand == SelectSeq(incomeEntries, LAMBDA entry : entry.documentId \notin DocumentIds)

\* the income entries of the documents whose processing did not fail
RECURSIVE EntriesOfProcessed(_)
EntriesOfProcessed(ids) ==
  IF ids = {} THEN << >>
  ELSE LET id == CHOOSE x \in ids : TRUE
       IN  (IF posts[id].failed THEN << >> ELSE EntriesToCreate(id))
             \o EntriesOfProcessed(ids \ {id})

\* C16: no reader of the tax return sees income entries of a document that
\* the stored totals do not reflect: the creation of the entries and the
\* update of the totals are one step.
C16_AtomicApplyAndRecompute ==
  \A id \in DocumentIds :
    EntriesOf(id) # << >> => taxReturn = AggregationOf(incomeEntries)

\* C17: when the processing of a document is over, either it failed and none
\* of its income entries and no change of the totals persist, or it did not
\* and all of its income entries and their part of the totals do.
C17_AllOrNothing ==
  /\ \A id \in DocumentIds :
       posts[id].pc = "done" =>
         EntriesOf(id) = (IF posts[id].failed THEN << >> ELSE EntriesToCreate(id))
  /\ (\A id \in DocumentIds : posts[id].pc = "done") =>
       /\ taxReturn.totalIncome =
            SumOfAmounts(EntriesByHand) + SumOfAmounts(EntriesOfProcessed(DocumentIds))
       /\ taxReturn.totalWithholdings =
            SumOfWithholdings(EntriesByHand)
              + SumOfWithholdings(EntriesOfProcessed(DocumentIds))

\* C18: the processing of documents, which no reviewer takes part in, makes
\* no extracted amount an income entry and leaves the totals of the return
\* as they were.
C18_ReviewPrecedesCommit ==
  /\ \A id \in DocumentIds : EntriesOf(id) = << >>
  /\ taxReturn = AggregationOf(EntriesByHand)

----------------------------------------------------------------------------
(* Properties of the intake *)

\* the message is among the messages
Reports(messages, message) == \E i \in 1..Len(messages) : messages[i] = message

\* C19: for a 1099 document whose only populated amount is foreignTaxPaid,
\* map1099ToForm1040 adds the amount to the foreign-tax-credit ledger and
\* changes no primary line, and validate1099DataForMapping reports "No
\* income data found" as a warning and not as an error that blocks.
C19_SideScheduleOnly ==
  [][/\ (MapStep /\ CarriesOnly(mapped'[Len(mapped')], "foreignTaxPaid")) =>
          /\ TargetOf(form', "foreignTaxPaid") =
               TargetOf(form, "foreignTaxPaid")
                 + parseAmount(mapped'[Len(mapped')]["foreignTaxPaid"])
          /\ PrimaryTotals(form') = PrimaryTotals(form)
     /\ (validation'.checked /\ CarriesOnly(validation'.form1099Data, "foreignTaxPaid")) =>
          /\ validation'.isValid
          /\ ~Reports(validation'.errors, "No income data found in 1099 form")
          /\ Reports(validation'.warnings, "No income data found in 1099 form")]_vars

----------------------------------------------------------------------------
(* Properties of the selection *)

\* the words of a name, whatever their case and the spaces around them
WordsIn(name) ==
  SelectSeq(SplitOn(toUpperCase(name), " "), LAMBDA word : word # << >>)

\* the name matches the target: the same words, or every word of the target
\* is a word of the name
NameMatches(name, target) ==
  \/ WordsIn(name) = WordsIn(target)
  \/ \A i \in 1..Len(WordsIn(target)) : ArrayIncludes(WordsIn(name), WordsIn(target)[i])

\* the records whose name matches the target
MatchingRecords ==
  {i \in 1..Len(multiEmployeeInfo.employeeRecords) :
     NameMatches(multiEmployeeInfo.employeeRecords[i].name, employeeName)}

\* two records or more, a target, and one record only whose name matches
OneRecordMatches ==
  /\ Len(multiEmployeeInfo.employeeRecords) >= 2
  /\ Len(employeeName) > 0
  /\ Cardinality(MatchingRecords) = 1

\* C20: given two or more records and a target name that matches the name of
\* exactly one record, selectPrimaryEmployeeRecord returns that record,
\* whatever its position in the list and its confidence.
C20_TargetNameSelection ==
  (primaryEmployee.selected /\ OneRecordMatches) =>
    \A i \in MatchingRecords :
      primaryEmployee.value = multiEmployeeInfo.employeeRecords[i]

\* the record that matches is not the first and its confidence is lower
\* than the first record's
C20_Witness ==
  /\ primaryEmployee.selected
  /\ OneRecordMatches
  /\ \E i \in MatchingRecords :
       /\ i > 1
       /\ multiEmployeeInfo.employeeRecords[i].confidence
            < multiEmployeeInfo.employeeRecords[1].confidence
       /\ primaryEmployee.value = multiEmployeeInfo.employeeRecords[i]

----------------------------------------------------------------------------
(* The reading of the boxes of a 1099-INT text *)

BoxesInit ==
  /\ AllIdleBut("boxes")
  /\ boxText \in BoxTexts
  /\ boxData = NotRead

\* extractedData = this.extract1099IntFieldsFromOCR(extractedData.fullText,
\*   extractedData), with extractedData = { fullText }
ReadBoxes ==
  /\ ~boxData.read
  /\ boxData' =
       [read |-> TRUE,
        data |-> extract1099IntFieldsFromOCR(
                   boxText, Put(EmptyObject, "fullText", Str(boxText)))]
  /\ UNCHANGED boxText
  /\ UNCHANGED notBoxesVars

BoxesNext == ReadBoxes

BoxesSpec == BoxesInit /\ [][BoxesNext]_vars

----------------------------------------------------------------------------
(* Properties of the reading of boxes *)

\* the numeric boxes no pattern matched in the text: the section of the box
\* is not found, or no amount is found in the section
UnmatchedBoxes(ocrText) ==
  {i \in 1..Len(Boxes1099Int) :
     /\ Boxes1099Int[i].numeric
     /\ LET sectionMatch == SectionMatch(ocrText, Boxes1099Int[i].boxNumber,
                                         Boxes1099Int[i].fieldLabels,
                                         Boxes1099Int[i].nextBoxNumber)
        IN ~sectionMatch.matched \/ ValueMatch(sectionMatch.section) = << >>}

\* C21: once the boxes of a text are read, a numeric field no pattern
\* matched has no entry in the data: absent stays absent, it is not set to 0
C21_AbsentStaysAbsent ==
  boxData.read =>
    \A i \in UnmatchedBoxes(boxText) : ~Has(boxData.data, Boxes1099Int[i].key)

----------------------------------------------------------------------------
(* The reading of the structured fields of a 1099 whose recognized text is *)
(* empty                                                                   *)

ReaderInit ==
  /\ AllIdleBut("reader")
  /\ \/ readerType = "FORM_1099_INT" /\ documentFields \in FieldsOver(Aliases1099Int)
     \/ readerType = "FORM_1099_MISC" /\ documentFields \in FieldsOver(Aliases1099Misc)
  /\ readerData = NotProcessed

\* return this.process1099IntFields(document.fields, extractedData)
Process1099IntFields ==
  /\ ~readerData.read
  /\ readerType = "FORM_1099_INT"
  /\ readerData' =
       [read |-> TRUE,
        data |-> process1099IntFields(documentFields,
                                      Put(EmptyObject, "fullText", Str(<< >>)))]
  /\ UNCHANGED <<documentFields, readerType>>
  /\ UNCHANGED notReaderVars

\* return this.process1099MiscFields(document.fields, extractedData)
Process1099MiscFields ==
  /\ ~readerData.read
  /\ readerType = "FORM_1099_MISC"
  /\ readerData' =
       [read |-> TRUE,
        data |-> process1099MiscFields(documentFields,
                                       Put(EmptyObject, "fullText", Str(<< >>)))]
  /\ UNCHANGED <<documentFields, readerType>>
  /\ UNCHANGED notReaderVars

ReaderNext ==
  \/ Process1099IntFields
  \/ Process1099MiscFields

ReaderSpec == ReaderInit /\ [][ReaderNext]_vars

----------------------------------------------------------------------------
(* Properties of the reading of structured fields *)

FieldMappingsOf(type) ==
  IF type = "FORM_1099_INT" THEN FieldMappings1099Int ELSE FieldMappings1099Misc

TextFieldsOf(type) ==
  IF type = "FORM_1099_INT" THEN TextFields1099Int ELSE TextFields1099Misc

\* the positions in the mapping of the populated names of a mapped field
PopulatedAliases(type, fields, mappedFieldName) ==
  {i \in 1..Len(FieldMappingsOf(type)) :
     /\ FieldMappingsOf(type)[i][2] = mappedFieldName
     /\ Has(fields, FieldMappingsOf(type)[i][1])}

MappedFieldNames(type) ==
  {FieldMappingsOf(type)[i][2] : i \in 1..Len(FieldMappingsOf(type))}

\* C22: once the structured fields are read, a mapped field with populated
\* names holds the value of the first-listed of them
C22_FirstAliasWins ==
  readerData.read =>
    \A mappedFieldName \in MappedFieldNames(readerType) :
      LET populated == PopulatedAliases(readerType, documentFields, mappedFieldName)
      IN populated # {} =>
           /\ Has(readerData.data, mappedFieldName)
           /\ readerData.data[mappedFieldName] =
                MappedValue(
                  documentFields[FieldMappingsOf(readerType)[Least(populated)][1]],
                  mappedFieldName, TextFieldsOf(readerType))

----------------------------------------------------------------------------
(* The parsing of one address by the two parsers *)

AddressInit ==
  /\ AllIdleBut("address")
  /\ addressLine \in AddressLines
  /\ serviceAddress = NotParsed
  /\ mapperAddress = NotParsed

\* return this.parseAddressComponents(cleanAddress)
ParseAddressComponents ==
  /\ ~serviceAddress.parsed
  /\ serviceAddress' = [parsed |-> TRUE, value |-> parseAddressComponents(addressLine)]
  /\ UNCHANGED <<addressLine, mapperAddress>>
  /\ UNCHANGED notAddressVars

\* const addressParts = this.parseAddress(recipientAddress)
ParseAddress ==
  /\ ~mapperAddress.parsed
  /\ mapperAddress' = [parsed |-> TRUE, value |-> parseAddress(addressLine)]
  /\ UNCHANGED <<addressLine, serviceAddress>>
  /\ UNCHANGED notAddressVars

AddressNext ==
  \/ ParseAddressComponents
  \/ ParseAddress

AddressSpec == AddressInit /\ [][AddressNext]_vars

----------------------------------------------------------------------------
(* Properties of the parsing of addresses *)

\* all four of street, city, two-letter state and postal code populated
FullyParsed(parts) ==
  /\ Text(parts, "street") # << >>
  /\ Text(parts, "city") # << >>
  /\ Len(Text(parts, "state")) = 2
  /\ AllIn(Text(parts, "state"), Letters)
  /\ IsZip(Text(parts, "zipCode"))

\* the street is the whole input and the rest is empty
StreetOnly(parts, address) ==
  /\ Text(parts, "street") \in {address, TrimWhitespace(address)}
  /\ Text(parts, "city") = << >>
  /\ Text(parts, "state") = << >>
  /\ Text(parts, "zipCode") = << >>

\* C23: what a parser returns for an address is either fully parsed or the
\* whole address as the street and nothing else, never a part of the four
C23_AllOrStreetOnly ==
  /\ serviceAddress.parsed =>
       \/ FullyParsed(serviceAddress.value)
       \/ StreetOnly(serviceAddress.value, addressLine)
  /\ mapperAddress.parsed =>
       \/ FullyParsed(mapperAddress.value)
       \/ StreetOnly(mapperAddress.value, addressLine)

----------------------------------------------------------------------------
(* Documents applied to a form that holds personal information *)

PersonalInit ==
  /\ form \in PersonalForms
  /\ mapped = << >>
  /\ exported = NoExport
  /\ updates = 0
  /\ AllIdleBut("form")

PersonalNext == \E doc \in PersonalDocs : Map1099(doc)

PersonalSpec == PersonalInit /\ [][PersonalNext]_vars

----------------------------------------------------------------------------
(* Properties of the personal information *)

PersonalKeys ==
  {"firstName", "lastName", "ssn", "address", "city", "state", "zipCode",
   "personalInfo"}

\* the personal information came from a W-2 and has a first name, an SSN
\* and an address
W2InformationComplete(f) ==
  /\ Has(f, "personalInfo")
  /\ Has(f.personalInfo, "sourceDocument")
  /\ Includes(f.personalInfo.sourceDocument, << "W", "2" >>)
  /\ Text(f, "firstName") # << >>
  /\ Text(f, "ssn") # << >>
  /\ Text(f, "address") # << >>

SameAt(f, g, k) == Has(f, k) = Has(g, k) /\ (Has(f, k) => f[k] = g[k])

\* C25: a call of map1099ToForm1040 on a form whose personal information
\* came from a W-2 and has a first name, an SSN and an address leaves the
\* name, the SSN, the address, the city, the state, the ZIP code and
\* personalInfo as they were
C25_W2InformationKept ==
  [][(MapStep /\ W2InformationComplete(form))
       => \A k \in PersonalKeys : SameAt(form, form', k)]_vars

\* a document that names another recipient, with another TIN and another
\* address, was applied to such a form
C25_Witness ==
  /\ Len(mapped) >= 1
  /\ W2InformationComplete(form)
  /\ LET a == Actual1099Data(LastMapped)
     IN /\ RecipientField(a, "recipientName", "Name", "Recipient.Name") # << >>
        /\ SplitWords(Trim(RecipientField(a, "recipientName", "Name", "Recipient.Name")))[1]
             # form.firstName
        /\ RecipientField(a, "recipientTIN", "TIN", "Recipient.TIN") # << >>
        /\ formatSSN(RecipientField(a, "recipientTIN", "TIN", "Recipient.TIN")) # form.ssn
        /\ RecipientField(a, "recipientAddress", "Address", "Recipient.Address") # << >>

----------------------------------------------------------------------------
(* Properties of the two tax computations together *)

\* total income, AGI, taxable income, total tax, total payments, refund and
\* amount owed as recalculateForm1040Totals wrote them into f
WrittenTotals(f) ==
  [totalIncome |-> OrZero(f, "line9"),
   adjustedGrossIncome |-> OrZero(f, "line11"),
   taxableIncome |-> OrZero(f, "line15"),
   taxLiability |-> OrZero(f, "line24"),
   totalWithholdings |-> OrZero(f, "line32"),
   refundAmount |-> OrZero(f, "line33"),
   amountOwed |-> OrZero(f, "line37")]

\* the same seven values as calculateTax returns them
ReturnedTotals(calculations) ==
  [k \in DOMAIN WrittenTotals(EmptyObject) |-> calculations[k]]

\* C28: the totals the mapper's recalculateForm1040Totals has written into
\* the form equal the values Standard1040Form.calculateTax returns on that
\* form
C28_ComputationsAgree ==
  [][MapStep => WrittenTotals(form') = ReturnedTotals(calculateTax(form'))]_vars

----------------------------------------------------------------------------
(* The reading of a wage statement with several employees *)

WagesInit ==
  /\ AllIdleBut("wages")
  /\ w2Text \in W2Texts
  /\ w2Fields \in W2FieldSets
  /\ w2Data = NotProcessed

\* processW2Fields(fields, baseData) with baseData.fullText the text
ProcessW2Fields ==
  /\ w2Data = NotProcessed
  /\ w2Data' = processW2Fields(w2Fields, w2Text,
                               detectAndExtractMultipleEmployeeRecords(w2Text))
  /\ UNCHANGED <<w2Text, w2Fields, notWagesVars>>

WagesNext == ProcessW2Fields

WagesSpec == WagesInit /\ [][WagesNext]_vars

\* the wages printed in the block of the employee of an address
PrintedWages(address) ==
  {parseFloat(W2Employees[i].wages).cents :
     i \in {j \in {1, 2} : Includes(address, W2Employees[j].city)}}

\* C29: when several employee records are detected, the wages the text
\* fallback recovers are those of the employee whose record gave the
\* address of the data
C29_OneEmployeePerDocument ==
  (w2Data # NotProcessed /\ w2Data.wages > 0)
    => w2Data.wages \in PrintedWages(w2Data.employeeAddress)

----------------------------------------------------------------------------
(* Properties of concurrent processing *)

\* no POST of a document of the return is under way, and one at least is
\* over
AllRunsFinished ==
  /\ \A id \in DocumentIds : posts[id].pc \in {"start", "done"}
  /\ \E id \in DocumentIds : posts[id].pc = "done"

\* C24: for every interleaving of the POSTs of the documents of one tax
\* return, once all of them are over the stored totalIncome is the sum of
\* the amounts of the income entries of the return and the stored
\* totalWithholdings the sum of their federalTaxWithheld.
C24_TotalsFreshAtQuiescence ==
  AllRunsFinished =>
    /\ taxReturn.totalIncome = SumOfAmounts(incomeEntries)
    /\ taxReturn.totalWithholdings = SumOfWithholdings(incomeEntries)

----------------------------------------------------------------------------
(* The POST route, several requests on one document.  Each await of the    *)
(* route is a step; the requests interleave at the awaits.  A response is  *)
(* "success" (steps 3 and 11) or "error" (every status 500).               *)

RequestsInit ==
  /\ AllIdleBut("requests")
  /\ requestedExtraction \in Extractions
  /\ processedDocument = [processingStatus |-> "PENDING"]
  /\ requests = [r \in Requests |-> NotRequested]
  /\ documentEntries = << >>
  /\ returnTotals = AggregationOf(<< >>)

\* the entries step 10 is to create for the document
EntriesOfDocument ==
  createIncomeEntriesFromExtractedData(
    requestedExtraction.documentType, requestedExtraction.extractedData,
    RequestedDocument)

\* request r moves to pc
Proceed(r, pc) == requests' = [requests EXCEPT ![r].pc = pc]

\* request r returns the response
Respond(r, response) ==
  requests' = [requests EXCEPT ![r].pc = "done", ![r].response = response]

\* steps 2-3: the document is read; a COMPLETED document is not processed
FindDocument(r, ok) ==
  /\ requests[r].pc = "start"
  /\ Proceed(r, IF ~ok THEN "catching"
                ELSE IF processedDocument.processingStatus = "COMPLETED"
                  THEN "existing"
                ELSE "marking")
  /\ UNCHANGED <<processedDocument, requestedExtraction, documentEntries, returnTotals>>
  /\ UNCHANGED notRequestsVars

\* step 3: the extracted entries of a COMPLETED document are read and
\* returned
ReturnExisting(r, ok) ==
  /\ requests[r].pc = "existing"
  /\ IF ok THEN Respond(r, "success") ELSE Proceed(r, "catching")
  /\ UNCHANGED <<processedDocument, requestedExtraction, documentEntries, returnTotals>>
  /\ UNCHANGED notRequestsVars

\* step 4: the status becomes PROCESSING
SetProcessing(r, ok) ==
  /\ requests[r].pc = "marking"
  /\ IF ok
       THEN /\ processedDocument' =
                 [processedDocument EXCEPT !.processingStatus = "PROCESSING"]
            /\ requests' = [requests EXCEPT ![r].pc = "extracting", ![r].marked = TRUE]
       ELSE /\ Proceed(r, "catching")
            /\ UNCHANGED processedDocument
  /\ UNCHANGED <<requestedExtraction, documentEntries, returnTotals>>
  /\ UNCHANGED notRequestsVars

\* steps 5-8: the configuration is there and the extraction returns the
\* data, or the handler of the step is to set FAILED
ExtractDocument(r, ok) ==
  /\ requests[r].pc = "extracting"
  /\ Proceed(r, IF ok THEN "saving" ELSE "failing")
  /\ UNCHANGED <<processedDocument, requestedExtraction, documentEntries, returnTotals>>
  /\ UNCHANGED notRequestsVars

\* step 9: the extracted entries are saved, or the handler of the step is
\* to set FAILED
SaveEntries(r, ok) ==
  /\ requests[r].pc = "saving"
  /\ Proceed(r, IF ok THEN "creating" ELSE "failing")
  /\ UNCHANGED <<processedDocument, requestedExtraction, documentEntries, returnTotals>>
  /\ UNCHANGED notRequestsVars

\* the handlers of steps 5, 6, 8 and 9: the status becomes FAILED and the
\* response is an error; an update that fails is caught by the route
SetFailed(r, ok) ==
  /\ requests[r].pc = "failing"
  /\ IF ok
       THEN /\ processedDocument' =
                 [processedDocument EXCEPT !.processingStatus = "FAILED"]
            /\ Respond(r, "error")
       ELSE /\ Proceed(r, "catching")
            /\ UNCHANGED processedDocument
  /\ UNCHANGED <<requestedExtraction, documentEntries, returnTotals>>
  /\ UNCHANGED notRequestsVars

\* step 10: await prisma.incomeEntry.create of the next entry; an error is
\* logged only
CreateEntry(r, ok) ==
  /\ requests[r].pc = "creating"
  /\ requests[r].created < Len(EntriesOfDocument)
  /\ IF ok
       THEN /\ documentEntries' =
                 Append(documentEntries, EntriesOfDocument[requests[r].created + 1])
            /\ requests' = [requests EXCEPT ![r].created = @ + 1]
       ELSE /\ Proceed(r, "completing")
            /\ UNCHANGED documentEntries
  /\ UNCHANGED <<processedDocument, requestedExtraction, returnTotals>>
  /\ UNCHANGED notRequestsVars

\* updateIncomeAggregation: await prisma.incomeEntry.findMany
FindEntries(r, ok) ==
  /\ requests[r].pc = "creating"
  /\ requests[r].created = Len(EntriesOfDocument)
  /\ IF ok
       THEN requests' = [requests EXCEPT ![r].pc = "aggregating",
                                         ![r].read = documentEntries]
       ELSE Proceed(r, "completing")
  /\ UNCHANGED <<processedDocument, requestedExtraction, documentEntries, returnTotals>>
  /\ UNCHANGED notRequestsVars

\* updateIncomeAggregation: await prisma.taxReturn.update
UpdateTotals(r, ok) ==
  /\ requests[r].pc = "aggregating"
  /\ returnTotals' = IF ok THEN AggregationOf(requests[r].read) ELSE returnTotals
  /\ Proceed(r, "completing")
  /\ UNCHANGED <<processedDocument, requestedExtraction, documentEntries>>
  /\ UNCHANGED notRequestsVars

\* step 11: the status becomes COMPLETED and the response is a success
SetCompleted(r, ok) ==
  /\ requests[r].pc = "completing"
  /\ IF ok
       THEN /\ processedDocument' =
                 [processedDocument EXCEPT !.processingStatus = "COMPLETED"]
            /\ Respond(r, "success")
       ELSE /\ Proceed(r, "catching")
            /\ UNCHANGED processedDocument
  /\ UNCHANGED <<requestedExtraction, documentEntries, returnTotals>>
  /\ UNCHANGED notRequestsVars

\* the catch of the route: the status becomes FAILED if the update goes
\* through, and the response is an error
CatchError(r, ok) ==
  /\ requests[r].pc = "catching"
  /\ processedDocument' =
       IF ok THEN [processedDocument EXCEPT !.processingStatus = "FAILED"]
             ELSE processedDocument
  /\ Respond(r, "error")
  /\ UNCHANGED <<requestedExtraction, documentEntries, returnTotals>>
  /\ UNCHANGED notRequestsVars

RequestsNext ==
  \E r \in Requests, ok \in BOOLEAN :
    \/ FindDocument(r, ok)
    \/ ReturnExisting(r, ok)
    \/ SetProcessing(r, ok)
    \/ ExtractDocument(r, ok)
    \/ SaveEntries(r, ok)
    \/ SetFailed(r, ok)
    \/ CreateEntry(r, ok)
    \/ FindEntries(r, ok)
    \/ UpdateTotals(r, ok)
    \/ SetCompleted(r, ok)
    \/ CatchError(r, ok)

RequestsSpec == RequestsInit /\ [][RequestsNext]_vars

\* C26: whatever the requests on a document, one after the other or at the
\* same time, the income entries of the document are created at most once.
C26_AppliedAtMostOnce == Len(documentEntries) <= Len(EntriesOfDocument)

\* request r returns in this step
Returns(r) == requests[r].pc # "done" /\ requests'[r].pc = "done"

\* C27: a request that has set the status to PROCESSING leaves it, when it
\* returns, at COMPLETED or FAILED, and its response is a success only when
\* it leaves it at COMPLETED.
C27_TerminalOnReturn ==
  [][\A r \in Requests :
       (Returns(r) /\ requests[r].marked) =>
         /\ processedDocument'.processingStatus \in {"COMPLETED", "FAILED"}
         /\ requests'[r].response = "success" =>
              processedDocument'.processingStatus = "COMPLETED"]_vars

----------------------------------------------------------------------------
(* EnhancedIncomeStep: the acceptance of the extracted entries *)

AcceptInit ==
  /\ AllIdleBut("accept")
  /\ pendingAutoEntries \in PendingLists
  /\ shownIncomeEntries = << >>
  /\ autoSaved = EmptyObject
  /\ acceptAll = NotAccepting

\* prev.filter((_, i) => i !== index), index counted from 0
RemoveAt(prev, index) ==
  [j \in 1..(Len(prev) - (IF index + 1 \in 1..Len(prev) THEN 1 ELSE 0)) |->
     IF j < index + 1 THEN prev[j] ELSE prev[j + 1]]

\* the entry the server answers a successful save request with, marked as
\* auto-populated
SavedEntry(entry) ==
  [incomeType |-> entry.incomeType,
   amount |-> parseFloat(entry.amount).cents,
   federalTaxWithheld |-> parseFloat(entry.federalTaxWithheld).cents,
   documentId |-> entry.documentId,
   isAutoPopulated |-> TRUE]

\* handleAcceptAllAutoEntries is called: it closes over the pending list of
\* the render
HandleAcceptAllAutoEntries ==
  /\ acceptAll.pc = "idle"
  /\ acceptAll' = [pc |-> "running", entries |-> pendingAutoEntries, i |-> 0,
                   responses |-> << >>]
  /\ UNCHANGED <<pendingAutoEntries, shownIncomeEntries, autoSaved>>
  /\ UNCHANGED notAcceptVars

\* one turn of the loop: await handleAcceptAutoEntry(pendingAutoEntries[i], 0);
\* ok is response.ok, and a fetch that throws is caught and changes nothing
HandleAcceptAutoEntry(ok) ==
  /\ acceptAll.pc = "running"
  /\ acceptAll.i < Len(acceptAll.entries)
  /\ IF ok
       THEN /\ shownIncomeEntries' =
                 Append(shownIncomeEntries, SavedEntry(acceptAll.entries[acceptAll.i + 1]))
            /\ autoSaved' =
                 [totalIncome |-> SumOfAmounts(shownIncomeEntries'),
                  adjustedGrossIncome |-> SumOfAmounts(shownIncomeEntries')]
            /\ pendingAutoEntries' = RemoveAt(pendingAutoEntries, 0)
       ELSE UNCHANGED <<pendingAutoEntries, shownIncomeEntries, autoSaved>>
  /\ acceptAll' = [acceptAll EXCEPT !.i = @ + 1, !.responses = Append(@, ok)]
  /\ UNCHANGED notAcceptVars

\* the loop is over
AcceptAllReturns ==
  /\ acceptAll.pc = "running"
  /\ acceptAll.i = Len(acceptAll.entries)
  /\ acceptAll' = [acceptAll EXCEPT !.pc = "returned"]
  /\ UNCHANGED <<pendingAutoEntries, shownIncomeEntries, autoSaved>>
  /\ UNCHANGED notAcceptVars

AcceptNext ==
  \/ HandleAcceptAllAutoEntries
  \/ \E ok \in BOOLEAN : HandleAcceptAutoEntry(ok)
  \/ AcceptAllReturns

AcceptSpec == AcceptInit /\ [][AcceptNext]_vars

\* how many times the entry is in the list
TimesIn(list, entry) == Cardinality({j \in 1..Len(list) : list[j] = entry})

\* C30: after handleAcceptAllAutoEntries has run over the pending entries,
\* every entry whose save request succeeded is once in the income entries
\* and no longer pending, and every entry whose save request failed is
\* still pending.
C30_AcceptAllBookkeeping ==
  acceptAll.pc = "returned" =>
    \A j \in 1..Len(acceptAll.entries) :
      IF acceptAll.responses[j]
        THEN /\ TimesIn(shownIncomeEntries, SavedEntry(acceptAll.entries[j])) = 1
             /\ TimesIn(pendingAutoEntries, acceptAll.entries[j]) = 0
        ELSE TimesIn(pendingAutoEntries, acceptAll.entries[j]) = 1

====
